---- MODULE Spec2Model ----
(***************************************************************************)
(* Orbital propagation and conjunction screening: a model of               *)
(*   src/src/screening.cpp   (risk classification, time-series screening)  *)
(*   src/src/api.cpp         (og_screen, the single-snapshot screening)    *)
(*   src/src/propagation.cpp (propagate and its helpers)                   *)
(*                                                                         *)
(* In screening, doubles are modelled in fixed point.  A distance, a       *)
(* coordinate or a speed is an integer number of 1/KM kilometres (per      *)
(* second); the intermediate values of logistic_probability are integers   *)
(* in units of 1/Q.  Every division rounds towards minus infinity, as the  *)
(* rounding of the model.  In propagation, a double is its IEEE 754 class  *)
(* (NaN, an infinity, a sign) and an angle carries exact integer multiples *)
(* of its cosine and sine.                                                 *)
(***************************************************************************)
EXTENDS Integers, Sequences, FiniteSets, TLC

VARIABLES
    risk,   \* the risk classifier's call: function, arguments, results
    scr,    \* the screening call: function, arguments, results
    prop,   \* the propagation call: arguments, results
    kep,    \* the Kepler solver: arguments, iterate, position in the loop
    enc,    \* the encounter list handed to a filter or a sort, and the result
    api,    \* the thread's last-error slot and the og_* calls made so far
    par,    \* concurrent propagate calls on one OrbitalElements
    man     \* the maneuver call: function, arguments, results

vars == <<risk, scr, prop, kep, enc, api, par, man>>


----------------------------------------------------------------------------
(* Representation *)

\* model units per kilometre: a distance of 1 km is the integer KM
KM == 2

\* units per 1.0 of the fixed-point values inside logistic_probability
Q == 1024

\* largest distance (in 1/KM km) handed to the risk functions
MaxDist == 60

\* largest relative speed (in 1/KM km/s) handed to logistic_probability
MaxVel == 8

\* a null const char* among ids; a non-null id is a number >= 0
NullId == 0 - 1

\* a size_t the callee has not written
Unset == 0 - 1

----------------------------------------------------------------------------
(* types.h: enum Severity *)

NONE == 0
LOW == 1
MEDIUM == 2
HIGH == 3
CRASH == 4

(* Band edges and logistic parameters.  screening.cpp uses these names;   *)
(* the header that defines them is not among the sources, so the values   *)
(* are the specification's canonical ones (1 km / 5 km / 25 km, k = 0.05  *)
(* per km, d0 = 2 km), which the assertions of                            *)
(* tests/test_screening.cpp agree with.                                    *)
SEVERITY_THRESHOLD_1KM == 1 * KM
SEVERITY_THRESHOLD_5KM == 5 * KM
SEVERITY_THRESHOLD_25KM == 25 * KM

\* LOGISTIC_K = 0.05 = 1 / LOGISTIC_K_INV
LOGISTIC_K_INV == 20
LOGISTIC_X0_KM == 2 * Q

----------------------------------------------------------------------------
(* screening.cpp: classify_severity *)

\* the mutant: the band edges belong to the farther band
classify_severity_strict(distance) ==
    IF distance < 0 THEN NONE
    ELSE IF distance < SEVERITY_THRESHOLD_1KM THEN CRASH
    ELSE IF distance < SEVERITY_THRESHOLD_5KM THEN HIGH
    ELSE IF distance < SEVERITY_THRESHOLD_25KM THEN MEDIUM
    ELSE LOW

\* the mutant: the returns of the High and the Medium band are exchanged
classify_severity_swapped(distance) ==
    IF distance < 0 THEN NONE
    ELSE IF distance <= SEVERITY_THRESHOLD_1KM THEN CRASH
    ELSE IF distance <= SEVERITY_THRESHOLD_5KM THEN MEDIUM
    ELSE IF distance <= SEVERITY_THRESHOLD_25KM THEN HIGH
    ELSE LOW

classify_severity(distance) ==
    IF distance < 0 THEN NONE
    ELSE IF distance <= SEVERITY_THRESHOLD_1KM THEN CRASH
    ELSE IF distance <= SEVERITY_THRESHOLD_5KM THEN HIGH
    ELSE IF distance <= SEVERITY_THRESHOLD_25KM THEN MEDIUM
    ELSE LOW

----------------------------------------------------------------------------
(* screening.cpp: logistic_probability *)

\* exp(x) for x in units of 1/Q, result in units of 1/Q:
\* (1 + x/16)^16 by four squarings, each rounded down
Square(y) == (y * y) \div Q

exp(x) == Square(Square(Square(Square(Q + (x \div 16)))))

\* the mutant: the velocity scales the distance up instead of down
logistic_probability_mul(distance, relative_velocity) ==
    IF distance < 0 \/ relative_velocity < 0 THEN 0
    ELSE
        LET velocity_factor == Q + ((relative_velocity * Q) \div KM) \div 10
            adjusted_distance == (((distance * Q) \div KM) * velocity_factor) \div Q
            exponent == (adjusted_distance - LOGISTIC_X0_KM) \div LOGISTIC_K_INV
        IN  (Q * Q) \div (Q + exp(exponent))

logistic_probability(distance, relative_velocity) ==
    IF distance < 0 \/ relative_velocity < 0 THEN 0
    ELSE
        LET velocity_factor == Q + ((relative_velocity * Q) \div KM) \div 10
            adjusted_distance == (((distance * Q) \div KM) * Q) \div velocity_factor
            exponent == (adjusted_distance - LOGISTIC_X0_KM) \div LOGISTIC_K_INV
        IN  (Q * Q) \div (Q + exp(exponent))

----------------------------------------------------------------------------
(* The risk classifier's calls.  A call is drawn with its arguments, then  *)
(* the function runs on them.  Each call evaluates the function at two     *)
(* argument tuples, so that the results can be compared.                   *)

Distances == (0 - KM) .. MaxDist
Velocities == (0 - KM) .. MaxVel

Idle == [op |-> "idle"]

SeverityCalls ==
    [op : {"classify_severity"}, done : {FALSE},
     d1 : Distances, d2 : Distances, s1 : {NONE}, s2 : {NONE}]

ProbabilityCalls ==
    {c \in [op : {"logistic_probability"}, done : {FALSE},
            d1 : Distances, v1 : Velocities,
            d2 : Distances, v2 : Velocities, p1 : {0}, p2 : {0}] :
        c.d1 = c.d2 \/ c.v1 = c.v2}

InitRisk ==
    /\ risk \in SeverityCalls \cup ProbabilityCalls
    /\ scr = Idle
    /\ prop = Idle
    /\ kep = Idle
    /\ enc = Idle
    /\ api = Idle
    /\ par = Idle
    /\ man = Idle

ClassifySeverity ==
    /\ risk.op = "classify_severity"
    /\ ~risk.done
    /\ risk' = [risk EXCEPT !.done = TRUE,
                            !.s1 = classify_severity(risk.d1),
                            !.s2 = classify_severity(risk.d2)]
    /\ UNCHANGED <<scr, prop, kep, enc, api, par, man>>

LogisticProbability ==
    /\ risk.op = "logistic_probability"
    /\ ~risk.done
    /\ risk' = [risk EXCEPT !.done = TRUE,
                            !.p1 = logistic_probability(risk.d1, risk.v1),
                            !.p2 = logistic_probability(risk.d2, risk.v2)]
    /\ UNCHANGED <<scr, prop, kep, enc, api, par, man>>

NextRisk == ClassifySeverity \/ LogisticProbability

SpecRisk == InitRisk /\ [][NextRisk]_vars

----------------------------------------------------------------------------
(* screening.cpp: distance3d, compute_relative_velocity                    *)
(* A vector is a triple of integers.  sqrt rounds down to the model's unit. *)

\* the largest s in lo .. hi with s * s <= n, by bisection
RECURSIVE SqrtBetween(_, _, _)
SqrtBetween(n, lo, hi) ==
    IF lo >= hi THEN lo
    ELSE LET mid == (lo + hi + 1) \div 2
         IN  IF mid * mid <= n THEN SqrtBetween(n, mid, hi)
             ELSE SqrtBetween(n, lo, mid - 1)

sqrt(n) == SqrtBetween(n, 0, IF n < 1024 THEN 32 ELSE 32768)

distance3d(pos1, pos2) ==
    LET dx == pos1[1] - pos2[1]
        dy == pos1[2] - pos2[2]
        dz == pos1[3] - pos2[3]
    IN  sqrt(dx * dx + dy * dy + dz * dz)

compute_relative_velocity(state1, state2) ==
    LET dvx == state1.v[1] - state2.v[1]
        dvy == state1.v[2] - state2.v[2]
        dvz == state1.v[3] - state2.v[3]
    IN  sqrt(dvx * dvx + dvy * dvy + dvz * dvz)

fabs(x) == IF x < 0 THEN 0 - x ELSE x

----------------------------------------------------------------------------
(* screening.cpp: screen_conjunctions                                      *)
(*                                                                         *)
(* A StateVectorECI is [t, r, v]; t is in seconds, so that the tolerance   *)
(* SYNC_TOLERANCE_S / SECONDS_PER_DAY days is SYNC_TOLERANCE_S.  The       *)
(* caller passes, per object, a pointer to an array of `len` samples and   *)
(* no length: trajectories[i] is [null, len, s, pad].  s lists the array's *)
(* leading samples; an array longer than s repeats the last sample of s up *)
(* to index len - 1.  pad is what the memory behind the array holds: the   *)
(* value a read at an index >= len yields.                                 *)

SCREENING_SUCCESS == 0
SCREENING_ERROR_INVALID_INPUT == 1
SCREENING_ERROR_INSUFFICIENT_BUFFER == 2

MAX_TIME_STEPS == 100

\* the reference tolerance of the specification, 1 second; no file under
\* src/ defines the name
SYNC_TOLERANCE_S == 1

\* trajectories[i][t]
SampleAt(traj, t) ==
    IF t < Len(traj.s) THEN traj.s[t + 1]
    ELSE IF t < traj.len THEN traj.s[Len(traj.s)]
    ELSE traj.pad

\* the mutant: a later sample at the same distance replaces the closest one
ScanStep_latest(acc, state1, state2, t) ==
    LET time_diff == fabs(state1.t - state2.t)
        dist == distance3d(state1.r, state2.r)
    IN  IF time_diff > SYNC_TOLERANCE_S THEN acc
        ELSE IF dist <= acc.min_distance
             THEN [min_distance |-> dist,
                   time_of_closest |-> state1.t,
                   rel_velocity_at_closest |-> compute_relative_velocity(state1, state2),
                   closest_index |-> t]
             ELSE acc

\* one iteration of the loop over t: acc is
\* [min_distance, time_of_closest, rel_velocity_at_closest, closest_index]
ScanStep(acc, state1, state2, t) ==
    LET time_diff == fabs(state1.t - state2.t)
        dist == distance3d(state1.r, state2.r)
    IN  IF time_diff > SYNC_TOLERANCE_S THEN acc
        ELSE IF dist < acc.min_distance
             THEN [min_distance |-> dist,
                   time_of_closest |-> state1.t,
                   rel_velocity_at_closest |-> compute_relative_velocity(state1, state2),
                   closest_index |-> t]
             ELSE acc

\* the indices from which trajectories[i][t] may differ from its value at
\* t - 1
Breaks(traj) == (1 .. Len(traj.s)) \cup {traj.len}

\* the first index after t at which one of the two samples may change
NextChange(traj1, traj2, t) ==
    LET later == {b \in Breaks(traj1) \cup Breaks(traj2) \cup {MAX_TIME_STEPS} : b > t}
    IN  CHOOSE b \in later : \A c \in later : b <= c

\* the loop over t from index t on.  The iterations after t that read the
\* same two samples as iteration t leave acc as it is (dist < min_distance
\* is false once min_distance <= dist), so the loop continues at the next
\* index where a sample changes.
RECURSIVE ScanFrom(_, _, _, _)
ScanFrom(traj1, traj2, t, acc) ==
    IF t >= MAX_TIME_STEPS THEN acc
    ELSE ScanFrom(traj1, traj2, NextChange(traj1, traj2, t),
                  ScanStep(acc, SampleAt(traj1, t), SampleAt(traj2, t), t))

\* the scan of one pair, lines 80-108
ScanPair(traj1, traj2, max_distance_km) ==
    ScanFrom(traj1, traj2, 0,
              [min_distance |-> max_distance_km + 1 * KM,
               time_of_closest |-> 0,
               rel_velocity_at_closest |-> 0,
               closest_index |-> 0 - 1])

\* the mutant: the two ids are written the other way round
MakeEncounter_swapped(id1, id2, scan) ==
    [sat1_id |-> id2,
     sat2_id |-> id1,
     time_of_closest_approach |-> scan.time_of_closest,
     min_distance_km |-> scan.min_distance,
     relative_velocity |-> scan.rel_velocity_at_closest,
     severity |-> classify_severity(scan.min_distance),
     collision_probability |->
         logistic_probability(scan.min_distance, scan.rel_velocity_at_closest)]

\* the record written at lines 116-129
MakeEncounter(id1, id2, scan) ==
    [sat1_id |-> id1,
     sat2_id |-> id2,
     time_of_closest_approach |-> scan.time_of_closest,
     min_distance_km |-> scan.min_distance,
     relative_velocity |-> scan.rel_velocity_at_closest,
     severity |-> classify_severity(scan.min_distance),
     collision_probability |->
         logistic_probability(scan.min_distance, scan.rel_velocity_at_closest)]

\* the loops over i and j from the pair (i, j) on; out is the sequence of
\* encounters written so far, encounter_index its length
RECURSIVE PairLoop(_, _, _, _)
PairLoop(c, i, j, out) ==
    IF i >= c.sat_count - 1
    THEN [rc |-> SCREENING_SUCCESS, out_count |-> Len(out), out |-> out]
    ELSE IF j >= c.sat_count THEN PairLoop(c, i + 1, i + 2, out)
    ELSE IF c.trajectories[i + 1].null \/ c.trajectories[j + 1].null
            \/ c.ids[i + 1] = NullId \/ c.ids[j + 1] = NullId
         THEN PairLoop(c, i, j + 1, out)
    ELSE
        LET scan == ScanPair(c.trajectories[i + 1], c.trajectories[j + 1],
                             c.max_distance_km)
        IN  IF scan.min_distance <= c.max_distance_km /\ scan.closest_index >= 0
            THEN IF Len(out) >= c.max_out
                 THEN [rc |-> SCREENING_ERROR_INSUFFICIENT_BUFFER,
                       out_count |-> 0, out |-> out]
                 ELSE PairLoop(c, i, j + 1,
                               Append(out, MakeEncounter(c.ids[i + 1], c.ids[j + 1], scan)))
            ELSE PairLoop(c, i, j + 1, out)

\* the mutant: a null entry fails the call
screen_conjunctions_rejecting_null(c) ==
    IF c.null_arg \/ c.sat_count < 2
          \/ \E i \in 1 .. c.sat_count : c.trajectories[i].null \/ c.ids[i] = NullId
    THEN [rc |-> SCREENING_ERROR_INVALID_INPUT, out_count |-> Unset, out |-> << >>]
    ELSE PairLoop(c, 0, 1, << >>)

\* c is the call: [null_arg, sat_count, trajectories, ids, max_distance_km,
\* max_out]; the result is [rc, out_count, out].  out_count = Unset and
\* out = << >> stand for the caller's memory left as it was.
screen_conjunctions(c) ==
    IF c.null_arg \/ c.sat_count < 2
    THEN [rc |-> SCREENING_ERROR_INVALID_INPUT, out_count |-> Unset, out |-> << >>]
    ELSE PairLoop(c, 0, 1, << >>)

----------------------------------------------------------------------------
(* api.cpp: og_screen                                                      *)
(* states[i] is a position triple or NullState.  The result is             *)
(* [ret, out, last_error]; an og_encounter_t is                            *)
(* [id_a, id_b, min_distance_km, tca_epoch].                               *)

NullState == << >>

NoError == ""

\* the loops over i and j from the pair (i, j) on
RECURSIVE OgPairLoop(_, _, _, _)
OgPairLoop(c, i, j, out) ==
    IF ~(i < c.sat_count - 1 /\ Len(out) < c.max_encounters) THEN out
    ELSE IF ~(j < c.sat_count /\ Len(out) < c.max_encounters)
         THEN OgPairLoop(c, i + 1, i + 2, out)
    ELSE IF c.states[i + 1] = NullState \/ c.states[j + 1] = NullState
            \/ c.ids[i + 1] = NullId \/ c.ids[j + 1] = NullId
         THEN OgPairLoop(c, i, j + 1, out)
    ELSE
        LET distance == distance3d(c.states[i + 1], c.states[j + 1])
        IN  IF distance <= c.max_distance_km
            THEN OgPairLoop(c, i, j + 1,
                            Append(out, [id_a |-> c.ids[i + 1],
                                         id_b |-> c.ids[j + 1],
                                         min_distance_km |-> distance,
                                         tca_epoch |-> 0]))
            ELSE OgPairLoop(c, i, j + 1, out)

\* the mutant: the loops stop one object short
og_screen_short(c) ==
    IF c.null_arg
    THEN [ret |-> 0, out |-> << >>, last_error |-> "Invalid parameter: states is null"]
    ELSE IF c.sat_count < 2
    THEN [ret |-> 0, out |-> << >>,
          last_error |-> "Need at least 2 satellites for screening"]
    ELSE IF c.max_encounters = 0
    THEN [ret |-> 0, out |-> << >>, last_error |-> NoError]
    ELSE LET out == OgPairLoop([c EXCEPT !.sat_count = @ - 1], 0, 1, << >>)
         IN  [ret |-> Len(out), out |-> out, last_error |-> NoError]

\* c is the call: [null_arg, sat_count, states, ids, max_distance_km,
\* max_encounters]
og_screen(c) ==
    IF c.null_arg
    THEN [ret |-> 0, out |-> << >>, last_error |-> "Invalid parameter: states is null"]
    ELSE IF c.sat_count < 2
    THEN [ret |-> 0, out |-> << >>,
          last_error |-> "Need at least 2 satellites for screening"]
    ELSE IF c.max_encounters = 0
    THEN [ret |-> 0, out |-> << >>, last_error |-> NoError]
    ELSE LET out == OgPairLoop(c, 0, 1, << >>)
         IN  [ret |-> Len(out), out |-> out, last_error |-> NoError]

----------------------------------------------------------------------------
(* The screening calls.  A call is drawn with its arguments, then the      *)
(* function runs on them.                                                  *)

\* most objects in a call
MaxSats == 3

\* largest capacity of the caller's encounter array
MaxOut == 3

Origin == <<0, 0, 0>>

\* positions on the x axis at 0, 0.5 and 1.5 km
Positions == {Origin, <<1, 0, 0>>, <<3, 0, 0>>}

AtRest == <<0, 0, 0>>

Moving == <<0, 8 * KM, 0>>

\* the threshold of the time-series calls, 0.5 km
ScreenDistance == KM \div 2

\* what the memory behind a short array may hold
Pads == [t : {0}, r : Positions, v : {AtRest}]

NoPad == [t |-> 0, r |-> Origin, v |-> AtRest]

NullTraj == [null |-> TRUE, len |-> 0, s |-> << >>, pad |-> NoPad]

\* an array of len samples whose leading samples are s
Traj(len, s, pad) == [null |-> FALSE, len |-> len, s |-> s, pad |-> pad]

\* the k-th sample of a series that starts at time offset and advances by
\* one second per sample
SamplesAt(offset, k, vels) == [t : {offset + k}, r : Positions, v : vels]

\* single snapshots, two-sample series and full-length series whose samples
\* from the second on are equal
Series(offset, vels) ==
    {Traj(1, <<a>>, pad) : a \in SamplesAt(offset, 0, vels), pad \in Pads}
    \cup {Traj(2, <<a, b>>, pad) :
            a \in SamplesAt(offset, 0, vels), b \in SamplesAt(offset, 1, vels),
            pad \in Pads}
    \cup {Traj(MAX_TIME_STEPS, <<a, b>>, NoPad) :
            a \in SamplesAt(offset, 0, vels), b \in SamplesAt(offset, 1, vels)}

\* object 0 of a two-object call: at rest, its clock at 0, its first sample
\* at the origin
SeriesA == {a \in Series(0, {AtRest}) : a.s[1].r = Origin}

\* object 1 of a two-object call: its clock ahead by 0, 1 or 2 tolerances
SeriesB == UNION {Series(offset, {AtRest, Moving}) :
                    offset \in {0, SYNC_TOLERANCE_S, 2 * SYNC_TOLERANCE_S}}

\* the objects of a call of any size: null entries, snapshots and
\* full-length series at rest
Still(pos) == [t |-> 0, r |-> pos, v |-> AtRest]

PlainObjects ==
    {[traj |-> NullTraj, has_id |-> TRUE],
     [traj |-> Traj(MAX_TIME_STEPS, <<Still(Origin)>>, NoPad), has_id |-> FALSE],
     [traj |-> Traj(1, <<Still(Origin)>>, NoPad), has_id |-> TRUE]}
    \cup {[traj |-> Traj(MAX_TIME_STEPS, <<Still(pos)>>, NoPad), has_id |-> TRUE] :
            pos \in Positions}

IdsOf(objs) == [i \in 1 .. Len(objs) |-> IF objs[i].has_id THEN i - 1 ELSE NullId]

TrajsOf(objs) == [i \in 1 .. Len(objs) |-> objs[i].traj]

ObjectLists(set) == UNION {[1 .. n -> set] : n \in 0 .. MaxSats}

ScreenCall(null_arg, trajs, ids, max_out) ==
    [op |-> "screen_conjunctions", done |-> FALSE, null_arg |-> null_arg,
     sat_count |-> Len(trajs), trajectories |-> trajs, ids |-> ids,
     max_distance_km |-> ScreenDistance, max_out |-> max_out,
     rc |-> SCREENING_SUCCESS, out_count |-> Unset, out |-> << >>]

ScreenCalls ==
    {ScreenCall(FALSE, <<a, b>>, <<0, 1>>, MaxOut) : a \in SeriesA, b \in SeriesB}
    \cup {ScreenCall(FALSE, TrajsOf(objs), IdsOf(objs), max_out) :
            objs \in ObjectLists(PlainObjects), max_out \in 0 .. MaxOut}
    \cup {ScreenCall(TRUE, <<a, a>>, <<0, 1>>, MaxOut) :
            a \in {Traj(MAX_TIME_STEPS, <<Still(Origin)>>, NoPad)}}

\* the scenario of test_screening_smoke and of the specification:
\* 6800, 6801 and 6850 km on the x axis
OgPositions == {<<6800 * KM, 0, 0>>, <<6801 * KM, 0, 0>>, <<6850 * KM, 0, 0>>}

OgObjects ==
    {[state |-> NullState, has_id |-> TRUE],
     [state |-> <<6800 * KM, 0, 0>>, has_id |-> FALSE]}
    \cup {[state |-> pos, has_id |-> TRUE] : pos \in OgPositions}

\* 0.5 km, 5 km, 100 km
OgDistances == {KM \div 2, 5 * KM, 100 * KM}

OgCall(null_arg, objs, max_distance_km, max_encounters) ==
    [op |-> "og_screen", done |-> FALSE, null_arg |-> null_arg,
     sat_count |-> Len(objs),
     states |-> [i \in 1 .. Len(objs) |-> objs[i].state],
     ids |-> IdsOf(objs),
     max_distance_km |-> max_distance_km, max_encounters |-> max_encounters,
     ret |-> 0, out |-> << >>, last_error |-> NoError]

OgCalls ==
    {OgCall(FALSE, objs, d, m) :
        objs \in ObjectLists(OgObjects), d \in OgDistances, m \in 0 .. MaxOut}
    \cup {OgCall(TRUE, objs, 5 * KM, MaxOut) :
            objs \in [1 .. 2 -> {[state |-> pos, has_id |-> TRUE] : pos \in OgPositions}]}

InitScreen ==
    /\ scr \in ScreenCalls \cup OgCalls
    /\ risk = Idle
    /\ prop = Idle
    /\ kep = Idle
    /\ enc = Idle
    /\ api = Idle
    /\ par = Idle
    /\ man = Idle

ScreenConjunctions ==
    /\ scr.op = "screen_conjunctions"
    /\ ~scr.done
    /\ LET res == screen_conjunctions(scr)
       IN  scr' = [scr EXCEPT !.done = TRUE, !.rc = res.rc,
                              !.out_count = res.out_count, !.out = res.out]
    /\ UNCHANGED <<risk, prop, kep, enc, api, par, man>>

OgScreen ==
    /\ scr.op = "og_screen"
    /\ ~scr.done
    /\ LET res == og_screen(scr)
       IN  scr' = [scr EXCEPT !.done = TRUE, !.ret = res.ret,
                              !.out = res.out, !.last_error = res.last_error]
    /\ UNCHANGED <<risk, prop, kep, enc, api, par, man>>

NextScreen == ScreenConjunctions \/ OgScreen

SpecScreen == InitScreen /\ [][NextScreen]_vars

----------------------------------------------------------------------------
(* propagation.cpp: propagate and its helpers                              *)
(*                                                                         *)
(* A double is one of the classes NAN, -inf, negative, zero, positive,     *)
(* +inf; the arithmetic below is IEEE 754 arithmetic on the classes.  A    *)
(* negative or positive value is of a magnitude at which the products and  *)
(* quotients of the code neither overflow nor underflow.  Fin is a finite  *)
(* sum of terms of both signs, Old a value the call has not written.       *)
(* An angle is [nan, cos, sin] with 5 * cosine and 5 * sine of the angle   *)
(* as integers, so that the signs of the rotation matrix are exact.        *)

NAN == "nan"
NInf == "-inf"
Neg == "neg"
Zero == "zero"
Pos == "pos"
PInf == "+inf"
Fin == "fin"
Old == "old"

Doubles == {NAN, NInf, Neg, Zero, Pos, PInf}

IsNaN(x) == x = NAN

isinf(x) == x \in {NInf, PInf}

isfinite(x) == x \in {Neg, Zero, Pos, Fin}

Negative(x) == x \in {NInf, Neg}

Sign(n) == IF n < 0 THEN Neg ELSE IF n = 0 THEN Zero ELSE Pos

\* -x
Minus(x) ==
    CASE x = NInf -> PInf
      [] x = Neg -> Pos
      [] x = Pos -> Neg
      [] x = PInf -> NInf
      [] OTHER -> x

\* x * y
Mul(x, y) ==
    IF IsNaN(x) \/ IsNaN(y) THEN NAN
    ELSE IF x = Zero \/ y = Zero
         THEN IF isinf(x) \/ isinf(y) THEN NAN ELSE Zero
    ELSE IF isinf(x) \/ isinf(y)
         THEN IF Negative(x) # Negative(y) THEN NInf ELSE PInf
    ELSE IF Negative(x) # Negative(y) THEN Neg ELSE Pos

\* x / y; a zero divisor is +0, as the squares and powers the code divides
\* by are
Div(x, y) ==
    IF IsNaN(x) \/ IsNaN(y) THEN NAN
    ELSE IF (isinf(x) /\ isinf(y)) \/ (x = Zero /\ y = Zero) THEN NAN
    ELSE IF x = Zero \/ isinf(y) THEN Zero
    ELSE IF y = Zero \/ isinf(x)
         THEN IF Negative(x) # Negative(y) THEN NInf ELSE PInf
    ELSE IF Negative(x) # Negative(y) THEN Neg ELSE Pos

\* x + y
Add(x, y) ==
    IF IsNaN(x) \/ IsNaN(y) THEN NAN
    ELSE IF isinf(x) /\ isinf(y) THEN IF x = y THEN x ELSE NAN
    ELSE IF isinf(x) THEN x
    ELSE IF isinf(y) THEN y
    ELSE IF x = Zero THEN y
    ELSE IF y = Zero \/ x = y THEN x
    ELSE Fin

\* pow(x, 1.0/3.0) and pow(x, 1.5)
pow(x) == IF Negative(x) THEN NAN ELSE x

\* sqrt(x) on the classes
SquareRoot(x) == IF Negative(x) THEN NAN ELSE x

NaNAngle == [nan |-> TRUE, cos |-> 0, sin |-> 0]

Angle(c, s) == [nan |-> FALSE, cos |-> c, sin |-> s]

\* 0, pi/2 and one angle inside each quadrant
Angles == {Angle(5, 0), Angle(0, 5), Angle(3, 4), Angle(0 - 4, 3),
           Angle(0 - 3, 0 - 4), Angle(4, 0 - 3)}

cos(a) == IF a.nan THEN NAN ELSE Sign(a.cos)

sin(a) == IF a.nan THEN NAN ELSE Sign(a.sin)

\* the class of an expression over the cosines and sines of the angles as:
\* n is its value when no angle is NaN
Entry(n, as) == IF \E a \in as : a.nan THEN NAN ELSE Sign(n)

PROPAGATION_SUCCESS == 0
PROPAGATION_ERROR_CONVERGENCE == 1
PROPAGATION_ERROR_INVALID_INPUT == 2
PROPAGATION_ERROR_NAN_RESULT == 3

\* the eccentricities of the calls
Eccentricities == {"nan", "-inf", "-0.5", "0", "0.5", "1", "1.5", "+inf"}

\* e < 0.0
BelowZero(e) == e \in {"-inf", "-0.5"}

\* e >= 1.0
AtLeastOne(e) == e \in {"1", "1.5", "+inf"}

\* the class of an eccentricity that has passed the validation
Ecc(e) == IF e = "nan" THEN NAN ELSE IF e = "0" THEN Zero ELSE Pos

\* 1.0 - e * e for an eccentricity that has passed the validation
OneMinusSquare(e) == IF e = "nan" THEN NAN ELSE Pos

\* the mutant: the vectors are zeroed, the time is not
memset_vectors(out_state) ==
    [t |-> out_state.t, r |-> <<Zero, Zero, Zero>>, v |-> <<Zero, Zero, Zero>>]

\* memset(out_state, 0, sizeof(StateVectorECI))
memset(out_state) ==
    [t |-> Zero, r |-> <<Zero, Zero, Zero>>, v |-> <<Zero, Zero, Zero>>]

\* M is whether the mean anomaly is finite.  A non-finite M and a NaN
\* eccentricity make every iterate NaN, which passes neither test of the
\* loop; e = 0 converges in the first iteration; for 0 < e < 1 the call
\* says whether the iteration converges.  solved_E is the finite result.
solve_kepler(M, e, c) ==
    IF ~M \/ e = "nan" THEN NaNAngle
    ELSE IF e = "0" \/ c.converges THEN c.solved_E
    ELSE NaNAngle

compute_pqw_to_eci_rotation(raan, inc, argp) ==
    LET all == {raan, inc, argp}
    IN  <<Entry(5 * raan.cos * argp.cos - raan.sin * argp.sin * inc.cos, all),
          Entry(0 - 5 * raan.cos * argp.sin - raan.sin * argp.cos * inc.cos, all),
          Entry(raan.sin * inc.sin, {raan, inc}),
          Entry(5 * raan.sin * argp.cos + raan.cos * argp.sin * inc.cos, all),
          Entry(0 - 5 * raan.sin * argp.sin + raan.cos * argp.cos * inc.cos, all),
          Entry(0 - raan.cos * inc.sin, {raan, inc}),
          Entry(argp.sin * inc.sin, {argp, inc}),
          Entry(argp.cos * inc.sin, {argp, inc}),
          Entry(inc.cos, {inc})>>

matrix_vector_multiply(matrix, input) ==
    <<Add(Add(Mul(matrix[1], input[1]), Mul(matrix[2], input[2])),
          Mul(matrix[3], input[3])),
      Add(Add(Mul(matrix[4], input[1]), Mul(matrix[5], input[2])),
          Mul(matrix[6], input[3])),
      Add(Add(Mul(matrix[7], input[1]), Mul(matrix[8], input[2])),
          Mul(matrix[9], input[3]))>>

\* 1.0 - del1 / 3.0 - del1 * del1 - 134.0 * del1 * del1 * del1 / 81.0: for a
\* positive finite del1 the sign depends on its magnitude and the call names
\* it; for a negative finite del1 the polynomial is >= 1
AxisRatio(del1, c) ==
    CASE IsNaN(del1) -> NAN
      [] del1 = NInf -> NAN
      [] del1 = PInf -> NInf
      [] del1 = Pos -> c.axis_ratio
      [] OTHER -> Pos

Squared(x) == Mul(x, x)

Cubed(x) == Mul(Mul(x, x), x)

\* pow(MU / (n * n), 1.0/3.0), lines 88 and 141
SemiMajorAxis(n) == pow(Div(Pos, Squared(n)))

\* lines 104-115: the secular rates and the corrected elements.  A finite
\* raan + delta_omega * dt wraps to the angle the call names.
SecularCorrections(c, temp, n1) ==
    LET inc == c.inclination
        delta_omega == Mul(Mul(Minus(temp), cos(inc)), n1)
        delta_w == Mul(Mul(temp, Entry(5 * inc.cos * inc.cos - 25, {inc})), n1)
        dt == c.minutes_since_epoch
    IN  [mean_motion |-> Mul(n1, Pos),
         raan |-> IF c.raan_finite /\ isfinite(Mul(delta_omega, dt))
                  THEN c.wrapped_raan ELSE NaNAngle,
         arg_perigee |-> IF c.arg_perigee_finite /\ isfinite(Mul(delta_w, dt))
                         THEN c.wrapped_arg_perigee ELSE NaNAngle]

\* lines 97-101: del1, a1 and the corrected mean motion n1
CorrectedMotion(c, a0, temp) ==
    LET inc == c.inclination
        del1 == Div(Mul(temp, Entry(3 * inc.cos * inc.cos - 25, {inc})),
                    pow(OneMinusSquare(c.eccentricity)))
        a1 == Mul(a0, AxisRatio(del1, c))
    IN  SecularCorrections(c, temp, SquareRoot(Div(Pos, Cubed(a1))))

\* line 96: temp
J2Factor(c, a0) == CorrectedMotion(c, a0, Div(Pos, Squared(a0)))

\* the result is the corrected [mean_motion, raan, arg_perigee]
apply_j2_corrections(c) == J2Factor(c, SemiMajorAxis(Mul(c.mean_motion, Pos)))

\* the mutant: no value is taken for a NaN
isnan_never(x) == FALSE

\* std::isnan
isnan(x) == IsNaN(x)

\* the value of an angle
Value(a) == IF a.nan THEN NAN ELSE Fin

\* 1.0 - x for an x of magnitude below 1
OneMinusFraction(x) == IF IsNaN(x) THEN NAN ELSE Pos

\* cos_E - e, exactly: e is 0 or 1/2 and cos_E is E.cos / 5
CosMinusEcc(E, e) ==
    IF E.nan \/ e = "nan" THEN NAN
    ELSE IF e = "0" THEN Sign(E.cos) ELSE Sign(2 * E.cos - 5)

\* e + cos_nu, exactly: for e = 1/2 it is 3 cos_E / (2 - cos_E)
EccPlusCosNu(E, e) == IF E.nan \/ e = "nan" THEN NAN ELSE Sign(E.cos)

\* lines 159-170: the position in the orbital plane
PositionPQW(a, e, E) ==
    LET beta == SquareRoot(OneMinusSquare(e))
        denominator == OneMinusFraction(Mul(Ecc(e), cos(E)))
        cos_nu == Div(CosMinusEcc(E, e), denominator)
        sin_nu == Div(Mul(beta, sin(E)), denominator)
        r_mag == Mul(a, denominator)
    IN  <<Mul(r_mag, cos_nu), Mul(r_mag, sin_nu), Zero>>

\* lines 173-179: the velocity in the orbital plane
VelocityPQW(a, e, E) ==
    LET beta == SquareRoot(OneMinusSquare(e))
        denominator == OneMinusFraction(Mul(Ecc(e), cos(E)))
        sin_nu == Div(Mul(beta, sin(E)), denominator)
        p == Mul(a, OneMinusSquare(e))
        sqrt_mu_over_p == SquareRoot(Div(Pos, p))
    IN  <<Mul(Minus(sqrt_mu_over_p), sin_nu),
          Mul(sqrt_mu_over_p, EccPlusCosNu(E, e)), Zero>>

\* lines 189-197: the check of the result
CheckResult(out_state) ==
    IF \E i \in 1 .. 3 : isnan(out_state.r[i]) \/ isnan(out_state.v[i])
    THEN [rc |-> PROPAGATION_ERROR_NAN_RESULT, kepler_calls |-> 1,
          out_state |-> memset(out_state)]
    ELSE [rc |-> PROPAGATION_SUCCESS, kepler_calls |-> 1, out_state |-> out_state]

\* lines 186-187: the transformation to ECI
Transform(out_state, rotation_matrix, r_pqw, v_pqw) ==
    CheckResult([out_state EXCEPT
                    !.r = matrix_vector_multiply(rotation_matrix, r_pqw),
                    !.v = matrix_vector_multiply(rotation_matrix, v_pqw)])

\* lines 152-183: from the solved E on
FromAnomaly(c, out_state, corrected_elements, a, E) ==
    IF isnan(Value(E))
    THEN [rc |-> PROPAGATION_ERROR_CONVERGENCE, kepler_calls |-> 1,
          out_state |-> out_state]
    ELSE Transform(out_state,
                   compute_pqw_to_eci_rotation(corrected_elements.raan, c.inclination,
                                               corrected_elements.arg_perigee),
                   PositionPQW(a, c.eccentricity, E),
                   VelocityPQW(a, c.eccentricity, E))

\* lines 137-151: from the corrected elements on; n is the corrected mean
\* motion, and fmod of a non-finite mean anomaly is NaN
FromElements(c, out_state, corrected_elements) ==
    LET n == Mul(corrected_elements.mean_motion, Pos)
        M == c.mean_anomaly_finite /\ isfinite(Mul(n, c.minutes_since_epoch))
    IN  FromAnomaly(c, out_state, corrected_elements, SemiMajorAxis(n),
                    solve_kepler(M, c.eccentricity, c))

\* the mutant: the solver runs on the elements before they are validated
propagate_solving_first(c) ==
    IF c.null_elements \/ c.null_out_state
    THEN [rc |-> PROPAGATION_ERROR_INVALID_INPUT, kepler_calls |-> 0,
          out_state |-> c.out_state]
    ELSE IF BelowZero(c.eccentricity) \/ AtLeastOne(c.eccentricity)
    THEN [rc |-> PROPAGATION_ERROR_INVALID_INPUT, kepler_calls |-> 1,
          out_state |-> c.out_state]
    ELSE FromElements(c,
                      [memset(c.out_state) EXCEPT
                          !.t = Add(c.epoch, Div(c.minutes_since_epoch, Pos))],
                      apply_j2_corrections(c))

\* the mutant: the output is zeroed before the eccentricity is validated
propagate_zeroing_first(c) ==
    IF c.null_elements \/ c.null_out_state
    THEN [rc |-> PROPAGATION_ERROR_INVALID_INPUT, kepler_calls |-> 0,
          out_state |-> c.out_state]
    ELSE IF BelowZero(c.eccentricity) \/ AtLeastOne(c.eccentricity)
    THEN [rc |-> PROPAGATION_ERROR_INVALID_INPUT, kepler_calls |-> 0,
          out_state |-> memset(c.out_state)]
    ELSE FromElements(c,
                      [memset(c.out_state) EXCEPT
                          !.t = Add(c.epoch, Div(c.minutes_since_epoch, Pos))],
                      apply_j2_corrections(c))

\* c is the call; the result is [rc, kepler_calls, out_state]
propagate(c) ==
    IF c.null_elements \/ c.null_out_state
    THEN [rc |-> PROPAGATION_ERROR_INVALID_INPUT, kepler_calls |-> 0,
          out_state |-> c.out_state]
    ELSE IF BelowZero(c.eccentricity) \/ AtLeastOne(c.eccentricity)
    THEN [rc |-> PROPAGATION_ERROR_INVALID_INPUT, kepler_calls |-> 0,
          out_state |-> c.out_state]
    ELSE FromElements(c,
                      [memset(c.out_state) EXCEPT
                          !.t = Add(c.epoch, Div(c.minutes_since_epoch, Pos))],
                      apply_j2_corrections(c))

\* api.cpp, lines 162-207, with the caller's arrays: c is [elements,
\* out_state3, out_vel3, call, out_state3_mem, out_vel3_mem]: the three
\* pointers (FALSE for null), the propagate call made on the elements with
\* the local state of line 173, and the six doubles the two arrays hold.  The
\* result is [ret, out_state3_mem, out_vel3_mem].
og_propagate_arrays(c) ==
    IF ~c.elements \/ ~c.out_state3 \/ ~c.out_vel3
    THEN [ret |-> 0 - 1, out_state3_mem |-> c.out_state3_mem,
          out_vel3_mem |-> c.out_vel3_mem]
    ELSE IF propagate(c.call).rc = PROPAGATION_SUCCESS
    THEN [ret |-> 0, out_state3_mem |-> propagate(c.call).out_state.r,
          out_vel3_mem |-> propagate(c.call).out_state.v]
    ELSE [ret |-> propagate(c.call).rc, out_state3_mem |-> c.out_state3_mem,
          out_vel3_mem |-> c.out_vel3_mem]

----------------------------------------------------------------------------
(* The propagation calls *)

\* the caller's state vector before the call
OldState == [t |-> Old, r |-> <<Old, Old, Old>>, v |-> <<Old, Old, Old>>]

\* valid elements of an orbit in general position
Nominal ==
    [op |-> "propagate", done |-> FALSE,
     null_elements |-> FALSE, null_out_state |-> FALSE,
     eccentricity |-> "0", mean_motion |-> Pos, inclination |-> Angle(3, 4),
     raan_finite |-> TRUE, arg_perigee_finite |-> TRUE,
     mean_anomaly_finite |-> TRUE, epoch |-> Pos, minutes_since_epoch |-> Pos,
     axis_ratio |-> Pos, converges |-> TRUE,
     wrapped_raan |-> Angle(3, 4), wrapped_arg_perigee |-> Angle(3, 4),
     solved_E |-> Angle(3, 4),
     rc |-> PROPAGATION_SUCCESS, kepler_calls |-> 0, out_state |-> OldState]

\* every class of eccentricity, mean motion and time on the nominal geometry
NumericCalls ==
    {[Nominal EXCEPT !.eccentricity = e, !.mean_motion = mm,
                     !.minutes_since_epoch = dt, !.mean_anomaly_finite = ma,
                     !.epoch = ep, !.axis_ratio = ar, !.converges = cv] :
        e \in Eccentricities, mm \in Doubles, dt \in Doubles, ma \in BOOLEAN,
        ep \in {Pos, PInf}, ar \in {Neg, Zero, Pos}, cv \in BOOLEAN}

\* every geometry for valid eccentricities; a NaN angle is a non-finite
\* element
GeometryCalls ==
    {[Nominal EXCEPT !.eccentricity = e, !.mean_motion = mm,
                     !.inclination = inc,
                     !.raan_finite = ~raan.nan,
                     !.wrapped_raan = IF raan.nan THEN @ ELSE raan,
                     !.arg_perigee_finite = ~argp.nan,
                     !.wrapped_arg_perigee = IF argp.nan THEN @ ELSE argp,
                     !.solved_E = E] :
        e \in {"0", "0.5"}, mm \in {Neg, Zero, Pos},
        inc \in Angles \cup {NaNAngle}, raan \in Angles \cup {NaNAngle},
        argp \in Angles \cup {NaNAngle}, E \in Angles}

NullCalls ==
    {[Nominal EXCEPT !.null_elements = ne, !.null_out_state = no] :
        ne \in BOOLEAN, no \in BOOLEAN} \ {Nominal}

PropagateCalls == NumericCalls \cup GeometryCalls \cup NullCalls

\* the calls of og_propagate: every combination of null pointers, on
\* elements of every class of eccentricity, mean motion and time
OgPropagateCalls ==
    {[op |-> "og_propagate", done |-> FALSE,
      elements |-> h, out_state3 |-> p3, out_vel3 |-> pv, call |-> n,
      ret |-> 0, out_state3_mem |-> OldState.r, out_vel3_mem |-> OldState.v] :
        h \in BOOLEAN, p3 \in BOOLEAN, pv \in BOOLEAN,
        n \in {k \in NumericCalls :
                  k.epoch = Pos /\ k.axis_ratio = Pos /\ k.mean_anomaly_finite}}

InitPropagate ==
    /\ prop \in PropagateCalls \cup OgPropagateCalls
    /\ risk = Idle
    /\ scr = Idle
    /\ kep = Idle
    /\ enc = Idle
    /\ api = Idle
    /\ par = Idle
    /\ man = Idle

Propagate ==
    /\ prop.op = "propagate"
    /\ ~prop.done
    /\ LET res == propagate(prop)
       IN  prop' = [prop EXCEPT !.done = TRUE, !.rc = res.rc,
                                !.kepler_calls = res.kepler_calls,
                                !.out_state = res.out_state]
    /\ UNCHANGED <<risk, scr, kep, enc, api, par, man>>

OgPropagateArrays ==
    /\ prop.op = "og_propagate"
    /\ ~prop.done
    /\ LET res == og_propagate_arrays(prop)
       IN  prop' = [prop EXCEPT !.done = TRUE, !.ret = res.ret,
                                !.out_state3_mem = res.out_state3_mem,
                                !.out_vel3_mem = res.out_vel3_mem]
    /\ UNCHANGED <<risk, scr, kep, enc, api, par, man>>

NextPropagate == Propagate \/ OgPropagateArrays

SpecPropagate == InitPropagate /\ [][NextPropagate]_vars

----------------------------------------------------------------------------
(* solve_kepler, one Newton iteration at a time.                           *)
(*                                                                         *)
(* A finite double of the solver is a fixed-point number: a tuple of Limbs *)
(* digits in base B, least significant first, whose last digit is the      *)
(* signed integer part (78 fractional bits).  Every operation rounds       *)
(* towards minus infinity.  NaN is carried beside the number as a flag.    *)

B == 8192
Limbs == 7

\* F applied to the values of its arguments: TLC evaluates each argument
\* once, where an operator would evaluate it at every mention in its body
With1(F(_), a) == CHOOSE r \in {F(x) : x \in {a}} : TRUE

With2(F(_, _), a, b) == CHOOSE r \in {F(x, y) : x \in {a}, y \in {b}} : TRUE

With3(F(_, _, _), a, b, c) ==
    CHOOSE r \in {F(x, y, z) : x \in {a}, y \in {b}, z \in {c}} : TRUE

RECURSIVE FxCarry(_, _, _, _)
FxCarry(cols, k, n, c) ==
    IF k = n THEN <<cols[k] + c>>
    ELSE <<(cols[k] + c) % B>> \o FxCarry(cols, k + 1, n, (cols[k] + c) \div B)

FxNorm(cols, n) == With1(LAMBDA cv : FxCarry(cv, 1, n, 0), cols)

FxZero == <<0, 0, 0, 0, 0, 0, 0>>

FxInt(n) == <<0, 0, 0, 0, 0, 0, n>>

FxOne == FxInt(1)

\* d + n * a * b, rounded once
FxFma(d, n, a, b) ==
    With3(LAMBDA dv, av, bv :
        SubSeq(FxNorm(<<n * (av[1] * bv[1]),
                        n * (av[1] * bv[2] + av[2] * bv[1]),
                        n * (av[1] * bv[3] + av[2] * bv[2] + av[3] * bv[1]),
                        n * (av[1] * bv[4] + av[2] * bv[3] + av[3] * bv[2]
                          + av[4] * bv[1]),
                        n * (av[1] * bv[5] + av[2] * bv[4] + av[3] * bv[3]
                          + av[4] * bv[2] + av[5] * bv[1]),
                        n * (av[1] * bv[6] + av[2] * bv[5] + av[3] * bv[4]
                          + av[4] * bv[3] + av[5] * bv[2] + av[6] * bv[1]),
                        dv[1] + n * (av[1] * bv[7] + av[2] * bv[6]
                          + av[3] * bv[5] + av[4] * bv[4] + av[5] * bv[3]
                          + av[6] * bv[2] + av[7] * bv[1]),
                        dv[2] + n * (av[2] * bv[7] + av[3] * bv[6]
                          + av[4] * bv[5] + av[5] * bv[4] + av[6] * bv[3]
                          + av[7] * bv[2]),
                        dv[3] + n * (av[3] * bv[7] + av[4] * bv[6]
                          + av[5] * bv[5] + av[6] * bv[4] + av[7] * bv[3]),
                        dv[4] + n * (av[4] * bv[7] + av[5] * bv[6]
                          + av[6] * bv[5] + av[7] * bv[4]),
                        dv[5] + n * (av[5] * bv[7] + av[6] * bv[6]
                          + av[7] * bv[5]),
                        dv[6] + n * (av[6] * bv[7] + av[7] * bv[6]),
                        dv[7] + n * (av[7] * bv[7])>>,
                      2 * Limbs - 1), Limbs, 2 * Limbs - 1),
        d, a, b)

FxAdd(a, b) ==
    With2(LAMBDA av, bv :
        FxNorm(<<av[1] + bv[1], av[2] + bv[2], av[3] + bv[3], av[4] + bv[4],
                 av[5] + bv[5], av[6] + bv[6], av[7] + bv[7]>>, Limbs),
        a, b)

FxSub(a, b) ==
    With2(LAMBDA av, bv :
        FxNorm(<<av[1] - bv[1], av[2] - bv[2], av[3] - bv[3], av[4] - bv[4],
                 av[5] - bv[5], av[6] - bv[6], av[7] - bv[7]>>, Limbs),
        a, b)

FxTimes(a, n) ==
    With1(LAMBDA av :
        FxNorm(<<av[1] * n, av[2] * n, av[3] * n, av[4] * n,
                 av[5] * n, av[6] * n, av[7] * n>>, Limbs),
        a)

FxMul(a, b) == FxFma(FxZero, 1, a, b)

FxNeg(a) == FxSub(FxZero, a)

FxNegative(a) == a[Limbs] < 0

FxLess(a, b) == FxNegative(FxSub(a, b))

FxAbs(a) == With1(LAMBDA av : IF FxNegative(av) THEN FxNeg(av) ELSE av, a)

RECURSIVE FxLongDivision(_, _, _, _)
FxLongDivision(a, n, k, r) ==
    IF k = 0 THEN << >>
    ELSE <<(r * B + a[k]) \div n>> \o FxLongDivision(a, n, k - 1, (r * B + a[k]) % n)

Reversed(q) ==
    With1(LAMBDA qv : <<qv[7], qv[6], qv[5], qv[4], qv[3], qv[2], qv[1]>>, q)

\* a / n for a small positive integer n
FxOver(a, n) == With1(LAMBDA av : Reversed(FxLongDivision(av, n, Limbs, 0)), a)

Ratio(p, q) == FxOver(FxInt(p), q)

Pow2(j) == <<1, 2, 4, 8, 16, 32, 64, 128, 256, 512, 1024, 2048, 4096>>[j + 1]

\* 2^-k for k in 1 .. 78
TwoToMinus(k) ==
    FxNorm([i \in 1 .. Limbs |->
               IF i = Limbs - ((k + 12) \div 13)
               THEN Pow2(13 * ((k + 12) \div 13) - k) ELSE 0], Limbs)

\* sin and cos: the Taylor series of x / 8 in powers of w = -(x / 8)^2,
\* 1 / (2k+1)! and 1 / (2k)! for k = 0 .. 11, then three angle doublings
SinCoefficients ==
    <<<<0, 0, 0, 0, 0, 0, 1>>,
      <<2730, 5461, 2730, 5461, 2730, 1365, 0>>,
      <<2184, 1092, 546, 4369, 2184, 68, 0>>,
      <<52, 26, 4109, 2054, 5123, 1, 0>>,
      <<6599, 6940, 5290, 7651, 184, 0, 0>>,
      <<1251, 8106, 4441, 5580, 1, 0, 0>>,
      <<4314, 314, 2339, 88, 0, 0, 0>>,
      <<3687, 7998, 3443, 0, 0, 0, 0>>,
      <<3808, 5420, 12, 0, 0, 0, 0>>,
      <<2358, 303, 0, 0, 0, 0, 0>>,
      <<5915, 0, 0, 0, 0, 0, 0>>,
      <<11, 0, 0, 0, 0, 0, 0>>>>

CosCoefficients ==
    <<<<0, 0, 0, 0, 0, 0, 1>>,
      <<0, 0, 0, 0, 0, 4096, 0>>,
      <<2730, 5461, 2730, 5461, 2730, 341, 0>>,
      <<364, 182, 4187, 6189, 3094, 11, 0>>,
      <<2054, 5123, 6657, 3328, 1664, 0, 0>>,
      <<5575, 7247, 7901, 4041, 18, 0, 0>>,
      <<6930, 4088, 5831, 1147, 0, 0, 0>>,
      <<6159, 5288, 2507, 6, 0, 0, 0>>,
      <<7398, 2035, 215, 0, 0, 0, 0>>,
      <<3852, 5762, 0, 0, 0, 0, 0>>,
      <<1346, 15, 0, 0, 0, 0, 0>>,
      <<268, 0, 0, 0, 0, 0, 0>>>>

Pair(a, i, w) == FxFma(a[i], 1, w, a[i + 1])

Quad(a, i, w, w2) == FxFma(Pair(a, i, w), 1, w2, Pair(a, i + 2, w))

Oct(a, i, w, w2, w4) == FxFma(Quad(a, i, w, w2), 1, w4, Quad(a, i + 4, w, w2))

Poly12(a, w, w2, w4, w8) == FxFma(Oct(a, 1, w, w2, w4), 1, w8, Quad(a, 9, w, w2))

Poly4(a, w, w2, w4) ==
    With1(LAMBDA wv : Poly12(a, w, w2, wv, FxMul(wv, wv)), w4)

Poly2(a, w, w2) == With1(LAMBDA wv : Poly4(a, w, wv, FxMul(wv, wv)), w2)

Polynomial(a, w) == With1(LAMBDA wv : Poly2(a, wv, FxMul(wv, wv)), w)

SinCosSmall(y, w) ==
    With2(LAMBDA yv, wv :
        [s |-> FxMul(yv, Polynomial(SinCoefficients, wv)),
         c |-> Polynomial(CosCoefficients, wv)],
        y, w)

DoubleAngle(s, c) ==
    With2(LAMBDA sv, cv :
        [s |-> FxFma(FxZero, 2, sv, cv), c |-> FxFma(FxOne, 0 - 2, sv, sv)],
        s, c)

Doubled(r) == With1(LAMBDA rv : DoubleAngle(rv.s, rv.c), r)

Eighth(y) ==
    With1(LAMBDA yv : SinCosSmall(yv, FxFma(FxZero, 0 - 1, yv, yv)), y)

SinCos(x) == Doubled(Doubled(Doubled(Eighth(FxOver(x, 8)))))

\* a / d: both are scaled by the power of two that brings d into [1/2, 1),
\* 1 / d is a table guess refined by three Newton steps
TopLimb(d) ==
    CHOOSE k \in 1 .. Limbs : d[k] # 0 /\ \A j \in k + 1 .. Limbs : d[j] = 0

BitGap(v) == CHOOSE j \in 0 .. 12 : v * Pow2(j) >= B \div 2 /\ v * Pow2(j) < B

LimbsUp(a, m) == SubSeq(FxZero \o a \o <<0>>, Limbs + 1 - m, 2 * Limbs - m)

Scaled(a, m, j) == FxTimes(LimbsUp(a, m), Pow2(j))

Guess(v) == <<0, 0, 0, 0, 0, ((B * B) \div v) % B, ((B * B) \div v) \div B>>

Refine(D, y) ==
    With1(LAMBDA yv : FxFma(yv, 1, yv, FxFma(FxOne, 0 - 1, D, yv)), y)

Reciprocal(D) ==
    With1(LAMBDA Dv : Refine(Dv, Refine(Dv, Refine(Dv, Guess(Dv[Limbs - 1])))), D)

ShiftFor(d, t) == [m |-> Limbs - 1 - t, j |-> BitGap(d[t])]

DivScaled(a, d, s) ==
    With1(LAMBDA sv :
        FxMul(Scaled(a, sv.m, sv.j), Reciprocal(Scaled(d, sv.m, sv.j))),
        s)

FxDivAbs(a, d) ==
    With2(LAMBDA av, dv : DivScaled(av, dv, ShiftFor(dv, TopLimb(dv))), a, d)

FxDiv(a, d) ==
    With2(LAMBDA av, dv :
        IF FxNegative(av) = FxNegative(dv) THEN FxDivAbs(FxAbs(av), FxAbs(dv))
        ELSE FxNeg(FxDivAbs(FxAbs(av), FxAbs(dv))),
        a, d)

\* fmod(x, m) for |x| < 4 * m; the result has the sign of x
Reduce(x, m) ==
    With1(LAMBDA xv : IF FxLess(xv, m) THEN xv ELSE FxSub(xv, m), x)

fmodAbs(x, m) == Reduce(Reduce(Reduce(x, m), m), m)

fmod(x, m) ==
    With1(LAMBDA xv :
        IF FxNegative(xv) THEN FxNeg(fmodAbs(FxNeg(xv), m)) ELSE fmodAbs(xv, m),
        x)

\* the doubles written in the source
TWO_PI == <<0, 0, 5216, 2181, 6996, 2319, 6>>

KEPLER_TOLERANCE == <<6077, 7886, 7991, 54, 0, 0, 0>>

KEPLER_MAX_ITERATIONS == 30

DerivativeFloor == <<3998, 4125, 4, 0, 0, 0, 0>>

HighEccentricity == <<0, 0, 3277, 1638, 4915, 6553, 0>>

GuessFactor == <<0, 4096, 6553, 3276, 1638, 6963, 0>>

\* lines 15-24: M is wrapped into [0, 2 pi) and E gets its initial guess
InitialGuess(k, M, sin_M) ==
    [k EXCEPT !.pc = "loop", !.M = M,
              !.E = IF FxLess(k.e, HighEccentricity) THEN FxFma(M, 1, k.e, sin_M)
                    ELSE IF FxNegative(sin_M)
                         THEN FxFma(M, 0 - 1, GuessFactor, k.e)
                         ELSE FxFma(M, 1, GuessFactor, k.e)]

Wrapped(k, M) == With1(LAMBDA Mv : InitialGuess(k, Mv, SinCos(Mv).s), M)

Start(k) ==
    IF k.nan THEN [k EXCEPT !.pc = "loop"]
    ELSE Wrapped(k, fmod(FxAdd(k.M, TWO_PI), TWO_PI))

\* line 27: the loop condition
LoopContinues_forever(k) == TRUE

LoopContinues(k) == k.i < KEPLER_MAX_ITERATIONS

\* lines 39-44: E -= delta, and the solver returns E once |delta| is small
Updated(k, delta) ==
    With1(LAMBDA dv :
        [k EXCEPT !.E = FxSub(k.E, dv), !.i = k.i + 1,
                  !.converged = FxLess(FxAbs(dv), KEPLER_TOLERANCE),
                  !.pc = IF FxLess(FxAbs(dv), KEPLER_TOLERANCE)
                         THEN "returned" ELSE "loop"],
        delta)

\* lines 34-38: a vanishing derivative returns NAN, otherwise delta = f / df
Divided(k, f, df) ==
    With2(LAMBDA fv, dfv :
        IF FxLess(FxAbs(dfv), DerivativeFloor)
        THEN [k EXCEPT !.i = k.i + 1, !.df_small = TRUE, !.ret_nan = TRUE,
                       !.pc = "returned"]
        ELSE Updated(k, FxDiv(fv, dfv)),
        f, df)

\* lines 28-31: f = E - e sin E - M and df = 1 - e cos E
Evaluated(k, sc) ==
    With1(LAMBDA scv :
        Divided(k, FxFma(FxSub(k.E, k.M), 0 - 1, k.e, scv.s),
                   FxFma(FxOne, 0 - 1, k.e, scv.c)),
        sc)

\* one pass through the loop body; on NaN every comparison is false
Iterate(k) ==
    IF k.nan THEN [k EXCEPT !.i = k.i + 1] ELSE Evaluated(k, SinCos(k.E))

\* line 48: the iteration budget is used up
Exhaust_returning_E(k) == [k EXCEPT !.pc = "returned"]

Exhaust(k) == [k EXCEPT !.pc = "returned", !.ret_nan = TRUE]

\* propagate, lines 151-154: a NaN from the solver ends the call; otherwise
\* lines 156-197 build the state vector from E and return rc
Resume(k, rc) ==
    IF k.ret_nan \/ k.nan
    THEN [k EXCEPT !.pc = "done", !.rc = PROPAGATION_ERROR_CONVERGENCE]
    ELSE [k EXCEPT !.pc = "done", !.rc = rc, !.built = TRUE]

\* the calls: eccentricities in [0, 1) and mean anomalies that propagate
\* can hand over, among them a NaN
OneMinus(k) == FxSub(FxOne, TwoToMinus(k))

KeplerEccentricities ==
    {FxZero, Ratio(1, 2), HighEccentricity, Ratio(9, 10), Ratio(99, 100),
     OneMinus(13), OneMinus(25), OneMinus(33), OneMinus(34), OneMinus(40)}

MeanAnomalies ==
    {FxZero, TwoToMinus(20), Ratio(1, 2), FxInt(3), FxInt(6),
     FxInt(0 - 1), FxInt(7)}

KeplerCall(M, e, nan) ==
    [op |-> "solve_kepler", pc |-> "call", M0 |-> M, e |-> e, nan |-> nan,
     M |-> M, E |-> FxZero, i |-> 0, df_small |-> FALSE, converged |-> FALSE,
     ret_nan |-> FALSE, rc |-> Unset, built |-> FALSE]

KeplerCalls ==
    {KeplerCall(M, e, FALSE) : M \in MeanAnomalies, e \in KeplerEccentricities}
    \cup {KeplerCall(FxZero, e, TRUE) : e \in {FxZero, Ratio(1, 2)}}

InitKepler ==
    /\ kep \in KeplerCalls
    /\ risk = Idle
    /\ scr = Idle
    /\ prop = Idle
    /\ enc = Idle
    /\ api = Idle
    /\ par = Idle
    /\ man = Idle

KeplerStart ==
    /\ kep.pc = "call"
    /\ kep' = Start(kep)
    /\ UNCHANGED <<risk, scr, prop, enc, api, par, man>>

NewtonIteration ==
    /\ kep.pc = "loop"
    /\ LoopContinues(kep)
    /\ kep' = Iterate(kep)
    /\ UNCHANGED <<risk, scr, prop, enc, api, par, man>>

KeplerExhausted ==
    /\ kep.pc = "loop"
    /\ ~LoopContinues(kep)
    /\ kep' = Exhaust(kep)
    /\ UNCHANGED <<risk, scr, prop, enc, api, par, man>>

PropagateResumes ==
    /\ kep.pc = "returned"
    /\ \E rc \in {PROPAGATION_SUCCESS, PROPAGATION_ERROR_NAN_RESULT} :
           kep' = Resume(kep, rc)
    /\ UNCHANGED <<risk, scr, prop, enc, api, par, man>>

NextKepler ==
    KeplerStart \/ NewtonIteration \/ KeplerExhausted \/ PropagateResumes

SpecKepler == InitKepler /\ [][NextKepler]_vars

FairKepler == SpecKepler /\ WF_vars(NextKepler)

----------------------------------------------------------------------------
(* Filtering and sorting an encounter list (screening.cpp:140-196).        *)
(* An Encounter is its time of closest approach, its severity, its         *)
(* collision probability in units of 1/Q, and a tag standing for the       *)
(* fields no comparison reads (the ids, the distance, the velocity).       *)

MaxEncounters == 3

\* lines 141-151
compare_by_risk_unweighted(a, b) ==
    IF a.collision_probability > b.collision_probability THEN 0 - 1
    ELSE IF a.collision_probability < b.collision_probability THEN 1
    ELSE 0

compare_by_risk(a, b) ==
    IF a.collision_probability * (a.severity + 1)
           > b.collision_probability * (b.severity + 1) THEN 0 - 1
    ELSE IF a.collision_probability * (a.severity + 1)
           < b.collision_probability * (b.severity + 1) THEN 1
    ELSE 0

\* lines 154-161
compare_by_time(a, b) ==
    IF a.time_of_closest_approach < b.time_of_closest_approach THEN 0 - 1
    ELSE IF a.time_of_closest_approach > b.time_of_closest_approach THEN 1
    ELSE 0

\* the call through the function pointer compar
Call(compar, a, b) ==
    IF compar = "compare_by_risk" THEN compare_by_risk(a, b) ELSE compare_by_time(a, b)

Orderings(n) ==
    {f \in [1 .. n -> 1 .. n] : \A i, j \in 1 .. n : i # j => f[i] # f[j]}

\* qsort: the array ends up in ascending order of compar; the order of
\* elements that compare equal is unspecified, so every such order is a result
qsort(base, count, compar) ==
    {r \in {[i \in 1 .. count |-> base[f[i]]] : f \in Orderings(count)} :
        \A i, j \in 1 .. count : i < j => Call(compar, r[i], r[j]) <= 0}

\* lines 164-170
sort_encounters_by_risk(c) ==
    IF c.null \/ c.count = 0 THEN {c.encounters}
    ELSE qsort(c.encounters, c.count, "compare_by_risk")

\* lines 172-178
sort_encounters_by_time(c) ==
    IF c.null \/ c.count = 0 THEN {c.encounters}
    ELSE qsort(c.encounters, c.count, "compare_by_time")

\* line 187
Keeps_strict(e, min_probability) == e.collision_probability > min_probability

Keeps(e, min_probability) == e.collision_probability >= min_probability

\* lines 186-193: the loop over read_index
RECURSIVE FilterLoop(_, _, _, _, _)
FilterLoop(encounters, count, min_probability, read_index, write_index) ==
    IF read_index > count THEN [ret |-> write_index - 1, encounters |-> encounters]
    ELSE IF Keeps(encounters[read_index], min_probability)
         THEN FilterLoop(IF write_index # read_index
                         THEN [encounters EXCEPT ![write_index] = encounters[read_index]]
                         ELSE encounters,
                         count, min_probability, read_index + 1, write_index + 1)
         ELSE FilterLoop(encounters, count, min_probability, read_index + 1,
                         write_index)

\* lines 180-196
filter_by_probability(c) ==
    IF c.null \/ c.count = 0 \/ c.min_probability < 0
    THEN [ret |-> c.count, encounters |-> c.encounters]
    ELSE FilterLoop(c.encounters, c.count, c.min_probability, 1, 1)

\* the calls
Times == {0, 1}

Severities == {LOW, HIGH}

Probabilities == {Q \div 4, Q \div 2}

Thresholds == {0 - 1, 0, Q \div 4, Q \div 2, Q}

EncounterAt(i) ==
    [tag : {i}, time_of_closest_approach : Times, severity : Severities,
     collision_probability : Probabilities]

EncounterLists ==
    UNION {{l \in [1 .. n -> UNION {EncounterAt(i) : i \in 1 .. n}] :
               \A i \in 1 .. n : l[i].tag = i} : n \in 0 .. MaxEncounters}

EncounterCall(op, l, null, count, p) ==
    [op |-> op, done |-> FALSE, null |-> null, input |-> l, encounters |-> l,
     count |-> count, min_probability |-> p, ret |-> Unset]

FilterCalls ==
    {EncounterCall("filter_by_probability", l, FALSE, Len(l), p) :
        l \in EncounterLists, p \in Thresholds}
    \cup {EncounterCall("filter_by_probability", << >>, TRUE, n, Q \div 2) :
        n \in {0, MaxEncounters}}

SortCalls ==
    {EncounterCall(op, l, FALSE, Len(l), 0) :
        op \in {"sort_encounters_by_risk", "sort_encounters_by_time"},
        l \in EncounterLists}
    \cup {EncounterCall(op, << >>, TRUE, MaxEncounters, 0) :
        op \in {"sort_encounters_by_risk", "sort_encounters_by_time"}}

InitEncounters ==
    /\ enc \in FilterCalls \cup SortCalls
    /\ risk = Idle
    /\ scr = Idle
    /\ prop = Idle
    /\ kep = Idle
    /\ api = Idle
    /\ par = Idle
    /\ man = Idle

FilterByProbability ==
    /\ enc.op = "filter_by_probability"
    /\ ~enc.done
    /\ enc' = [enc EXCEPT !.done = TRUE,
                          !.ret = filter_by_probability(enc).ret,
                          !.encounters = filter_by_probability(enc).encounters]
    /\ UNCHANGED <<risk, scr, prop, kep, api, par, man>>

SortByRisk ==
    /\ enc.op = "sort_encounters_by_risk"
    /\ ~enc.done
    /\ \E r \in sort_encounters_by_risk(enc) :
           enc' = [enc EXCEPT !.done = TRUE, !.encounters = r]
    /\ UNCHANGED <<risk, scr, prop, kep, api, par, man>>

SortByTime ==
    /\ enc.op = "sort_encounters_by_time"
    /\ ~enc.done
    /\ \E r \in sort_encounters_by_time(enc) :
           enc' = [enc EXCEPT !.done = TRUE, !.encounters = r]
    /\ UNCHANGED <<risk, scr, prop, kep, api, par, man>>

NextEncounters == FilterByProbability \/ SortByRisk \/ SortByTime

SpecEncounters == InitEncounters /\ [][NextEncounters]_vars

----------------------------------------------------------------------------
(* api.cpp: the last-error slot and the og_* calls of one thread.          *)
(* g_last_error is the thread's message buffer, NoError when its first     *)
(* byte is 0.  Each og_* function is given the buffer and its arguments    *)
(* and yields [ret, failed, g_last_error]; failed says that ret is a NULL  *)
(* handle, a non-zero status or a negative fuel value (for og_screen: that *)
(* the call was rejected).                                                 *)

\* most og_* calls in a run
MaxApiCalls == 4

\* a null message
NullPointer == "NULL"

\* what a call returns: a handle (NullHandle or Handle), a status, a count
\* or a fuel mass; Void for og_free_elements
NullHandle == 0

Handle == 1

Void == 0

\* lines 16-23; every message of api.cpp is shorter than the buffer
set_error(g_last_error, message) ==
    IF message # NullPointer THEN message ELSE NoError

\* lines 26-28
clear_error(g_last_error) == NoError

\* lines 31-40: the message left when ptr is null
validate_ptr(param_name) == "Invalid parameter: " \o param_name \o " is null"

\* lines 117-119
og_last_error(g_last_error) ==
    IF g_last_error # NoError THEN g_last_error ELSE NullPointer

Returned(ret, failed, g_last_error) ==
    [ret |-> ret, failed |-> failed, g_last_error |-> g_last_error]

\* lines 122-149; a is [name, line1, line2, allocated, parsed]: the three
\* pointers (TRUE when non-null), whether new gave memory, what
\* parse_tle_to_elements returns
og_parse_tle(g_last_error, a) ==
    LET cleared == clear_error(g_last_error)
    IN  IF ~a.name
        THEN Returned(NullHandle, TRUE, set_error(cleared, validate_ptr("name")))
        ELSE IF ~a.line1
        THEN Returned(NullHandle, TRUE, set_error(cleared, validate_ptr("line1")))
        ELSE IF ~a.line2
        THEN Returned(NullHandle, TRUE, set_error(cleared, validate_ptr("line2")))
        ELSE IF ~a.allocated
        THEN Returned(NullHandle, TRUE, set_error(cleared, "Memory allocation failed"))
        ELSE IF ~a.parsed
        THEN Returned(NullHandle, TRUE, set_error(cleared, "Failed to parse TLE data"))
        ELSE Returned(Handle, FALSE, cleared)

\* lines 151-159
og_free_elements(g_last_error, a) ==
    Returned(Void, FALSE, clear_error(g_last_error))

\* lines 162-207; a is [elements, out_state3, out_vel3, result]: the three
\* pointers and what propagate returns
og_propagate(g_last_error, a) ==
    LET cleared == clear_error(g_last_error)
    IN  IF ~a.elements
        THEN Returned(0 - 1, TRUE, set_error(cleared, validate_ptr("elements")))
        ELSE IF ~a.out_state3
        THEN Returned(0 - 1, TRUE, set_error(cleared, validate_ptr("out_state3")))
        ELSE IF ~a.out_vel3
        THEN Returned(0 - 1, TRUE, set_error(cleared, validate_ptr("out_vel3")))
        ELSE IF a.result = PROPAGATION_SUCCESS
        THEN Returned(0, FALSE, cleared)
        ELSE Returned(a.result, TRUE,
                 set_error(cleared,
                     CASE a.result = PROPAGATION_ERROR_INVALID_INPUT ->
                              "Invalid input parameters for propagation"
                       [] a.result = PROPAGATION_ERROR_CONVERGENCE ->
                              "Kepler equation failed to converge"
                       [] a.result = PROPAGATION_ERROR_NAN_RESULT ->
                              "Propagation resulted in NaN values"
                       [] OTHER -> "Unknown propagation error"))

\* lines 210-264, through og_screen above; a is an og_screen call
og_screen_call(g_last_error, a) ==
    LET res == og_screen(a)
    IN  Returned(res.ret, a.null_arg \/ a.sat_count < 2, res.last_error)

\* lines 267-340; a is [primary_elements, secondary_elements, out_m,
\* target_distance_km, max_delta_v_mps, result1, result2, current_distance].
\* delta_v_ms is separation_needed * 0.001 * 1000.0.
og_plan_maneuver(g_last_error, a) ==
    LET cleared == clear_error(g_last_error)
    IN  IF ~a.primary_elements
        THEN Returned(0 - 1, TRUE, set_error(cleared, validate_ptr("primary_elements")))
        ELSE IF ~a.secondary_elements
        THEN Returned(0 - 1, TRUE, set_error(cleared, validate_ptr("secondary_elements")))
        ELSE IF ~a.out_m
        THEN Returned(0 - 1, TRUE, set_error(cleared, validate_ptr("out_m")))
        ELSE IF a.target_distance_km <= 0 \/ a.max_delta_v_mps <= 0
        THEN Returned(0 - 1, TRUE, set_error(cleared, "Invalid maneuver parameters"))
        ELSE IF a.result1 # PROPAGATION_SUCCESS \/ a.result2 # PROPAGATION_SUCCESS
        THEN Returned(0 - 1, TRUE,
                 set_error(cleared, "Failed to propagate satellites to encounter time"))
        ELSE IF a.current_distance > a.target_distance_km
        THEN Returned(0, FALSE, cleared)
        ELSE IF a.target_distance_km - a.current_distance > a.max_delta_v_mps
        THEN Returned(0 - 1, TRUE,
                 set_error(cleared, "Required delta-V exceeds maximum allowed"))
        ELSE Returned(0, FALSE, cleared)

\* lines 356-368: delta_v_km_s is in units of 0.1 km/s, efficiency in
\* tenths, masses in kg; the exponent and mass_ratio are in units of 1/Q
required_fuel(a) ==
    LET delta_v_ms == a.delta_v_km_s * 100
        eff_isp == a.specific_impulse_s * a.efficiency
        total_mass == a.dry_mass_kg + a.propellant_mass_kg
        mass_ratio == exp((((delta_v_ms * Q * 10) \div eff_isp) * 1000) \div 9807)
    IN  (total_mass * (mass_ratio - Q)) \div Q

\* lines 343-376; a is [delta_v_km_s, specific_impulse_s, dry_mass_kg,
\* propellant_mass_kg, efficiency]
og_fuel_consumption(g_last_error, a) ==
    LET cleared == clear_error(g_last_error)
    IN  IF a.delta_v_km_s < 0 \/ a.specific_impulse_s <= 0 \/ a.dry_mass_kg <= 0
           \/ a.propellant_mass_kg < 0 \/ a.efficiency <= 0 \/ a.efficiency > 10
        THEN Returned(0 - 1, TRUE,
                 set_error(cleared, "Invalid fuel consumption parameters"))
        ELSE IF required_fuel(a) > a.propellant_mass_kg
        THEN Returned(0 - 1, TRUE, cleared)
        ELSE Returned(required_fuel(a), FALSE, cleared)

\* the arguments
ParseArguments ==
    [name : BOOLEAN, line1 : BOOLEAN, line2 : BOOLEAN, allocated : BOOLEAN,
     parsed : BOOLEAN]

PropagateArguments ==
    [elements : BOOLEAN, out_state3 : BOOLEAN, out_vel3 : BOOLEAN,
     result : {PROPAGATION_SUCCESS, PROPAGATION_ERROR_CONVERGENCE,
               PROPAGATION_ERROR_INVALID_INPUT, PROPAGATION_ERROR_NAN_RESULT}]

ApiScreenArguments ==
    {OgCall(null_arg, objs, 5 * KM, MaxOut) :
        null_arg \in BOOLEAN,
        objs \in {<< >>, <<[state |-> <<6800 * KM, 0, 0>>, has_id |-> TRUE]>>,
                  <<[state |-> <<6800 * KM, 0, 0>>, has_id |-> TRUE],
                    [state |-> <<6801 * KM, 0, 0>>, has_id |-> TRUE]>>}}

ManeuverArguments ==
    [primary_elements : BOOLEAN, secondary_elements : BOOLEAN, out_m : BOOLEAN,
     target_distance_km : {0, 5}, max_delta_v_mps : {0, 2},
     result1 : {PROPAGATION_SUCCESS, PROPAGATION_ERROR_CONVERGENCE},
     result2 : {PROPAGATION_SUCCESS, PROPAGATION_ERROR_NAN_RESULT},
     current_distance : {1, 4, 10}]

\* among them the calls of test_fuel_consumption: (0.1, 300, 1000, 200, 0.9),
\* (10, 300, 1000, 10, 0.9) and (-1, 300, 1000, 200, 0.9)
FuelArguments ==
    [delta_v_km_s : {0 - 10, 0, 1, 100}, specific_impulse_s : {0, 300},
     dry_mass_kg : {0, 1000}, propellant_mass_kg : {0 - 1, 10, 200},
     efficiency : {0, 9, 11}]

InitApi ==
    /\ api = [op |-> "og", n |-> 0, fn |-> "none", ret |-> Void, failed |-> FALSE,
              g_last_error |-> NoError]
    /\ risk = Idle
    /\ scr = Idle
    /\ prop = Idle
    /\ kep = Idle
    /\ enc = Idle
    /\ par = Idle
    /\ man = Idle

\* the thread after a call of fn that came back with res
After(fn, res) ==
    [api EXCEPT !.n = @ + 1, !.fn = fn, !.ret = res.ret, !.failed = res.failed,
                !.g_last_error = res.g_last_error]

OgParseTle ==
    /\ api.op = "og" /\ api.n < MaxApiCalls
    /\ \E a \in ParseArguments :
           api' = After("og_parse_tle", og_parse_tle(api.g_last_error, a))
    /\ UNCHANGED <<risk, scr, prop, kep, enc, par, man>>

OgFreeElements ==
    /\ api.op = "og" /\ api.n < MaxApiCalls
    /\ \E a \in BOOLEAN :
           api' = After("og_free_elements", og_free_elements(api.g_last_error, a))
    /\ UNCHANGED <<risk, scr, prop, kep, enc, par, man>>

OgPropagate ==
    /\ api.op = "og" /\ api.n < MaxApiCalls
    /\ \E a \in PropagateArguments :
           api' = After("og_propagate", og_propagate(api.g_last_error, a))
    /\ UNCHANGED <<risk, scr, prop, kep, enc, par, man>>

OgScreenCall ==
    /\ api.op = "og" /\ api.n < MaxApiCalls
    /\ \E a \in ApiScreenArguments :
           api' = After("og_screen", og_screen_call(api.g_last_error, a))
    /\ UNCHANGED <<risk, scr, prop, kep, enc, par, man>>

OgPlanManeuver ==
    /\ api.op = "og" /\ api.n < MaxApiCalls
    /\ \E a \in ManeuverArguments :
           api' = After("og_plan_maneuver", og_plan_maneuver(api.g_last_error, a))
    /\ UNCHANGED <<risk, scr, prop, kep, enc, par, man>>

OgFuelConsumption ==
    /\ api.op = "og" /\ api.n < MaxApiCalls
    /\ \E a \in FuelArguments :
           api' = After("og_fuel_consumption",
                        og_fuel_consumption(api.g_last_error, a))
    /\ UNCHANGED <<risk, scr, prop, kep, enc, par, man>>

NextApi ==
    \/ OgParseTle
    \/ OgFreeElements
    \/ OgPropagate
    \/ OgScreenCall
    \/ OgPlanManeuver
    \/ OgFuelConsumption

SpecApi == InitApi /\ [][NextApi]_vars

----------------------------------------------------------------------------
(* Concurrent propagate calls (propagation.cpp:118-198).                   *)
(* The workers share the callers' OrbitalElements records, which propagate *)
(* reads through a const pointer; each worker has its own out_state and    *)
(* its own stack frame, which holds corrected_elements.  A worker's call   *)
(* runs in four steps, between which the other workers may run.            *)

\* most workers running at once
MaxWorkers == 2

\* the elements records shared by the workers
SharedElements ==
    {Nominal,
     [Nominal EXCEPT !.eccentricity = "1.5"],
     [Nominal EXCEPT !.eccentricity = "0.5", !.solved_E = Angle(0 - 4, 3)],
     [Nominal EXCEPT !.raan_finite = FALSE],
     [Nominal EXCEPT !.converges = FALSE]}

\* the call of worker w on the elements record el, as propagate sees it
View(el, w) ==
    [el EXCEPT !.minutes_since_epoch = w.minutes_since_epoch,
               !.out_state = w.out_state]

\* a stack frame: corrected_elements is the copy made by memcpy (line 82),
\* with the fields apply_j2_corrections then overwrites
Frame(c) == [copy |-> c, corrected_elements |-> apply_j2_corrections(c)]

\* the mutant: corrected_elements is one static object for all workers
FrameOf_static(w) == 1

\* line 134: corrected_elements is a local of the worker's own call
FrameOf(w) == w

ParallelStart(els, ws) ==
    [op |-> "parallel", initial |-> els, elements |-> els,
     frames |-> [w \in 1 .. MaxWorkers |-> Frame(Nominal)],
     workers |-> ws]

InitParallel ==
    /\ par \in {ParallelStart(els, ws) :
                   els \in [1 .. 2 -> SharedElements],
                   ws \in [1 .. MaxWorkers ->
                              [pc : {"call"}, el : 1 .. 2,
                               minutes_since_epoch : {Pos, PInf},
                               out_state : {OldState},
                               rc : {PROPAGATION_SUCCESS}]]}
    /\ risk = Idle
    /\ scr = Idle
    /\ prop = Idle
    /\ kep = Idle
    /\ enc = Idle
    /\ api = Idle
    /\ man = Idle

\* lines 120-127
ParValidate ==
    /\ par.op = "parallel"
    /\ \E w \in 1 .. MaxWorkers :
           /\ par.workers[w].pc = "call"
           /\ LET c == View(par.elements[par.workers[w].el], par.workers[w])
              IN  IF c.null_elements \/ c.null_out_state
                     \/ BelowZero(c.eccentricity) \/ AtLeastOne(c.eccentricity)
                  THEN par' = [par EXCEPT
                                  !.workers[w].pc = "done",
                                  !.workers[w].rc = PROPAGATION_ERROR_INVALID_INPUT]
                  ELSE par' = [par EXCEPT !.workers[w].pc = "validated"]
    /\ UNCHANGED <<risk, scr, prop, kep, enc, api, man>>

\* lines 130-131
ParZero ==
    /\ par.op = "parallel"
    /\ \E w \in 1 .. MaxWorkers :
           /\ par.workers[w].pc = "validated"
           /\ LET c == View(par.elements[par.workers[w].el], par.workers[w])
              IN  par' = [par EXCEPT
                             !.workers[w].pc = "zeroed",
                             !.workers[w].out_state =
                                 [memset(c.out_state) EXCEPT
                                     !.t = Add(c.epoch, Div(c.minutes_since_epoch, Pos))]]
    /\ UNCHANGED <<risk, scr, prop, kep, enc, api, man>>

\* lines 134-135
ParCorrect ==
    /\ par.op = "parallel"
    /\ \E w \in 1 .. MaxWorkers :
           /\ par.workers[w].pc = "zeroed"
           /\ par' = [par EXCEPT
                         !.workers[w].pc = "corrected",
                         !.frames[FrameOf(w)] =
                             Frame(View(par.elements[par.workers[w].el],
                                        par.workers[w]))]
    /\ UNCHANGED <<risk, scr, prop, kep, enc, api, man>>

\* lines 137-197: everything after the corrections reads corrected_elements
ParFinish ==
    /\ par.op = "parallel"
    /\ \E w \in 1 .. MaxWorkers :
           /\ par.workers[w].pc = "corrected"
           /\ LET frame == par.frames[FrameOf(w)]
                  res == FromElements(View(frame.copy, par.workers[w]),
                                      par.workers[w].out_state,
                                      frame.corrected_elements)
              IN  par' = [par EXCEPT !.workers[w].pc = "done",
                                     !.workers[w].rc = res.rc,
                                     !.workers[w].out_state = res.out_state]
    /\ UNCHANGED <<risk, scr, prop, kep, enc, api, man>>

NextParallel == ParValidate \/ ParZero \/ ParCorrect \/ ParFinish

SpecParallel == InitParallel /\ [][NextParallel]_vars

----------------------------------------------------------------------------
(* maneuver.cpp: fuel_consumption, plan_avoidance, apply_maneuver.         *)
(* fuel_consumption works on the fixed-point numbers of the solver.  In    *)
(* plan_avoidance a time is an integer number of TimeUnit seconds and a    *)
(* speed an integer number of 1/SpeedUnit m/s; the calls are chosen so     *)
(* that every division of the function is exact.                           *)

\* 9.80665
G0 == <<0, 0, 6184, 1192, 629, 6608, 9>>

\* 1e-3
SMALL_DV_THRESHOLD == <<0, 4064, 7274, 7077, 1572, 8, 0>>

\* exp(x) for |x| < 1: the Taylor polynomial of degree ExpTerms, by Horner's
\* rule from the last term down
ExpTerms == 18

RECURSIVE ExpHorner(_, _, _)
ExpHorner(x, k, acc) ==
    IF k = 0 THEN acc
    ELSE With1(LAMBDA next : ExpHorner(x, k - 1, next),
               FxAdd(FxOne, FxOver(FxMul(x, acc), k)))

FxExp(x) == With1(LAMBDA xv : ExpHorner(xv, ExpTerms, FxOne), x)

\* lines 34-36
EffectiveEfficiency(efficiency) ==
    With1(LAMBDA eff : IF FxLess(FxZero, eff) THEN eff ELSE FxOne, efficiency)

\* lines 50-59
FuelFromRatio(m0, dv_ratio) ==
    With2(LAMBDA m, ratio :
        IF FxLess(ratio, SMALL_DV_THRESHOLD) THEN FxMul(m, ratio)
        ELSE FxSub(m, FxMul(m, FxExp(FxNeg(ratio)))),
        m0, dv_ratio)

\* lines 31-60
fuel_consumption(delta_v_km_s, specific_impulse_s, dry_mass_kg, propellant_mass_kg, efficiency) ==
    FuelFromRatio(FxAdd(dry_mass_kg, propellant_mass_kg),
                  FxDiv(FxDiv(FxTimes(delta_v_km_s, 1000),
                              EffectiveEfficiency(efficiency)),
                        FxMul(specific_impulse_s, G0)))

\* lines 140-142
isp_default_chemical == 300

\* seconds in a unit of time: SECONDS_PER_DAY / 864
TimeUnit == 100

\* units of speed in 1 m/s
SpeedUnit == 5

\* lines 15-17
vector_magnitude(v) == sqrt(v[1] * v[1] + v[2] * v[2] + v[3] * v[3])

\* lines 20-29: the unit vector is num / den
normalize_vector(v) ==
    IF vector_magnitude(v) > 0 THEN [num |-> v, den |-> vector_magnitude(v)]
    ELSE [num |-> <<0, 0, 0>>, den |-> 1]

\* memset(out_maneuver, 0, sizeof(Maneuver)); nan says that the doubles of
\* the maneuver are NaN
ZeroManeuver ==
    [id |-> "", epoch |-> 0, delta_v |-> <<0, 0, 0>>, nan |-> FALSE,
     fuel_cost |-> FxZero]

\* lines 99-132 for a finite required_dv_ms
Planned(c, required_dv_ms, velocity_unit) ==
    [id |-> "AVOID_epoch",
     epoch |-> c.encounter_time,
     delta_v |-> <<(velocity_unit.num[1] * required_dv_ms) \div velocity_unit.den,
                   (velocity_unit.num[2] * required_dv_ms) \div velocity_unit.den,
                   (velocity_unit.num[3] * required_dv_ms) \div velocity_unit.den>>,
     nan |-> FALSE,
     fuel_cost |-> fuel_consumption(Ratio(required_dv_ms, 1000 * SpeedUnit),
                                    FxInt(isp_default_chemical),
                                    FxInt(1000), FxInt(100), FxOne)]

\* line 88
TooLarge(required_dv_ms, max_delta_v_mps) == required_dv_ms > max_delta_v_mps

\* lines 62-133 for a finite encounter_time; c is the call: [primary,
\* null_out, encounter_time, time_nan, target_distance_km, max_delta_v_mps,
\* out_maneuver]; primary is [null, epoch, prop_result, v], with what
\* propagate(primary, 0.0, &current_state) returns and the velocity it writes
PlanFinite(c) ==
    LET delta_t_seconds == (c.encounter_time - c.primary.epoch) * TimeUnit
    IN  IF delta_t_seconds <= 0
        THEN [rc |-> 0 - 1, out_maneuver |-> ZeroManeuver]
        ELSE IF TooLarge((c.target_distance_km * 1000 * SpeedUnit) \div delta_t_seconds,
                         c.max_delta_v_mps)
        THEN [rc |-> 0 - 1, out_maneuver |-> ZeroManeuver]
        ELSE IF c.primary.prop_result # PROPAGATION_SUCCESS
        THEN [rc |-> 0 - 1, out_maneuver |-> ZeroManeuver]
        ELSE [rc |-> 0,
              out_maneuver |->
                  Planned(c, (c.target_distance_km * 1000 * SpeedUnit) \div delta_t_seconds,
                          normalize_vector(c.primary.v))]

\* lines 62-133 for a NaN encounter_time: no comparison with NaN holds, the
\* doubles written are NaN, and the conversion of NaN to long long at line
\* 112 is undefined: the id is any
PlanNaN(c) ==
    IF c.primary.prop_result # PROPAGATION_SUCCESS
    THEN {[rc |-> 0 - 1, out_maneuver |-> ZeroManeuver]}
    ELSE {[rc |-> 0,
           out_maneuver |-> [ZeroManeuver EXCEPT !.nan = TRUE, !.id = id]] :
             id \in {"AVOID_min", "AVOID_0"}}

\* lines 62-133: the results the call may have
plan_avoidance(c) ==
    IF c.primary.null \/ c.null_out
    THEN {[rc |-> 0 - 1, out_maneuver |-> c.out_maneuver]}
    ELSE IF c.time_nan THEN PlanNaN(c)
    ELSE {PlanFinite(c)}

\* lines 135-138: the body is empty; c is the call: [elements, m,
\* current_unix_ms, out_state]
apply_maneuver(c) == c.out_state

\* the calls
OldManeuver ==
    [id |-> "old", epoch |-> 0 - 7, delta_v |-> <<0 - 7, 0 - 7, 0 - 7>>,
     nan |-> FALSE, fuel_cost |-> FxInt(0 - 7)]

Primaries ==
    {[null |-> FALSE, epoch |-> 0, prop_result |-> PROPAGATION_SUCCESS, v |-> v] :
        v \in {<<7, 0, 0>>, <<3, 4, 0>>, <<0 - 2, 3, 6>>, <<0, 0, 0>>}}
    \cup {[null |-> FALSE, epoch |-> 0, prop_result |-> rc, v |-> <<0, 0, 0>>] :
            rc \in {PROPAGATION_ERROR_CONVERGENCE, PROPAGATION_ERROR_INVALID_INPUT}}
    \cup {[null |-> TRUE, epoch |-> 0, prop_result |-> PROPAGATION_ERROR_INVALID_INPUT,
           v |-> <<0, 0, 0>>]}

\* target distances of -7, 0, 7 and 70 km; ceilings of -1, 0, 7, 70 and
\* 100 m/s; encounters 100 s before the epoch, at it, 100 s and 1000 s after
PlanCalls ==
    {[op |-> "plan_avoidance", done |-> FALSE, primary |-> p, null_out |-> no,
      encounter_time |-> t, time_nan |-> nan, target_distance_km |-> d,
      max_delta_v_mps |-> m * SpeedUnit, rc |-> 0, out_maneuver |-> OldManeuver] :
        p \in Primaries, no \in BOOLEAN, t \in {0 - 1, 0, 1, 10}, nan \in BOOLEAN,
        d \in {0 - 7, 0, 7, 70}, m \in {0 - 1, 0, 7, 70, 100}}

\* among them the calls of test_fuel_consumption: 10, 100 and 1000 m/s at
\* efficiency 1, 100 m/s at efficiency 0.5 and 0
FuelCalls ==
    {[op |-> "fuel_consumption", done |-> FALSE,
      delta_v_km_s |-> Ratio(dv, 1000), specific_impulse_s |-> FxInt(isp),
      dry_mass_kg |-> FxInt(1000), propellant_mass_kg |-> FxInt(100),
      efficiency |-> eff, fuel |-> FxZero] :
        dv \in {0, 1, 2, 3, 10, 100, 1000}, isp \in {300, 450},
        eff \in {FxZero, Ratio(1, 2), FxOne}}

\* the state propagated to the maneuver epoch comes with the elements;
\* speeds are in m/s.  out_state is whatever the caller's memory holds.
ApplyCalls ==
    {[op |-> "apply_maneuver", done |-> FALSE,
      propagated |-> [t |-> 10, r |-> <<6800, 0, 0>>, v |-> <<0, 7500, 0>>],
      m |-> [epoch |-> 10, delta_v |-> dv],
      out_state |-> old] :
        dv \in {<<0, 0, 0>>, <<10, 0, 0>>, <<0, 0 - 10, 5>>},
        old \in {[t |-> 0, r |-> <<0, 0, 0>>, v |-> <<0, 0, 0>>],
                 [t |-> 10, r |-> <<6800, 0, 0>>, v |-> <<0, 7500, 0>>],
                 [t |-> 0 - 7, r |-> <<0 - 7, 0 - 7, 0 - 7>>, v |-> <<0 - 7, 0 - 7, 0 - 7>>]}}

InitManeuver ==
    /\ man \in PlanCalls \cup FuelCalls \cup ApplyCalls
    /\ risk = Idle
    /\ scr = Idle
    /\ prop = Idle
    /\ kep = Idle
    /\ enc = Idle
    /\ api = Idle
    /\ par = Idle

PlanAvoidance ==
    /\ man.op = "plan_avoidance"
    /\ ~man.done
    /\ \E res \in plan_avoidance(man) :
           man' = [man EXCEPT !.done = TRUE, !.rc = res.rc,
                              !.out_maneuver = res.out_maneuver]
    /\ UNCHANGED <<risk, scr, prop, kep, enc, api, par>>

FuelConsumption ==
    /\ man.op = "fuel_consumption"
    /\ ~man.done
    /\ man' = [man EXCEPT !.done = TRUE,
                          !.fuel = fuel_consumption(man.delta_v_km_s,
                                                    man.specific_impulse_s,
                                                    man.dry_mass_kg,
                                                    man.propellant_mass_kg,
                                                    man.efficiency)]
    /\ UNCHANGED <<risk, scr, prop, kep, enc, api, par>>

ApplyManeuver ==
    /\ man.op = "apply_maneuver"
    /\ ~man.done
    /\ man' = [man EXCEPT !.done = TRUE, !.out_state = apply_maneuver(man)]
    /\ UNCHANGED <<risk, scr, prop, kep, enc, api, par>>

NextManeuver == PlanAvoidance \/ FuelConsumption \/ ApplyManeuver

SpecManeuver == InitManeuver /\ [][NextManeuver]_vars

----------------------------------------------------------------------------
(* The angle wraps of a propagate call (propagation.cpp:114-115, 148, 15), *)
(* on the fixed-point numbers of the solver.  The call is given by the     *)
(* angles of the elements and by the three products the code adds to them: *)
(* delta_omega * dt, delta_w * dt and n * minutes_since_epoch.             *)

\* fmod(x + TWO_PI, TWO_PI)
WrapAngle(x) == fmod(FxAdd(x, TWO_PI), TWO_PI)

\* lines 109-110 and 114-115
CorrectedAngle(angle, drift) == WrapAngle(FxAdd(angle, drift))

\* lines 147-148
PropagatedAnomaly(mean_anomaly, n_minutes) ==
    WrapAngle(FxAdd(mean_anomaly, n_minutes))

ElementAngles == {FxZero, FxInt(1), FxInt(6)}

\* radians gained over the elapsed time; negative for a negative rate or a
\* negative elapsed time
Drifts == {FxInt(0 - 20), FxInt(0 - 7), Ratio(0 - 1, 2), FxZero, FxInt(3), FxInt(12)}

AngleCalls ==
    {[op |-> "angles", pc |-> "j2", raan |-> a, arg_perigee |-> a,
      mean_anomaly |-> a, delta_omega_dt |-> d1, delta_w_dt |-> d2,
      n_minutes |-> d3, M |-> FxZero, solver_M |-> FxZero] :
        a \in ElementAngles, d1 \in Drifts, d2 \in Drifts, d3 \in Drifts}

InitAngles ==
    /\ prop \in AngleCalls
    /\ risk = Idle
    /\ scr = Idle
    /\ kep = Idle
    /\ enc = Idle
    /\ api = Idle
    /\ par = Idle
    /\ man = Idle

\* apply_j2_corrections, lines 109-115
CorrectAngles ==
    /\ prop.op = "angles"
    /\ prop.pc = "j2"
    /\ prop' = [prop EXCEPT !.pc = "mean",
                            !.raan = CorrectedAngle(prop.raan, prop.delta_omega_dt),
                            !.arg_perigee = CorrectedAngle(prop.arg_perigee, prop.delta_w_dt)]
    /\ UNCHANGED <<risk, scr, kep, enc, api, par, man>>

\* propagate, lines 147-148
WrapMeanAnomaly ==
    /\ prop.op = "angles"
    /\ prop.pc = "mean"
    /\ prop' = [prop EXCEPT !.pc = "solver",
                            !.M = PropagatedAnomaly(prop.mean_anomaly, prop.n_minutes)]
    /\ UNCHANGED <<risk, scr, kep, enc, api, par, man>>

\* solve_kepler, line 15, on the M of line 151
SolverWrap ==
    /\ prop.op = "angles"
    /\ prop.pc = "solver"
    /\ prop' = [prop EXCEPT !.pc = "done", !.solver_M = WrapAngle(prop.M)]
    /\ UNCHANGED <<risk, scr, kep, enc, api, par, man>>

NextAngles == CorrectAngles \/ WrapMeanAnomaly \/ SolverWrap

SpecAngles == InitAngles /\ [][NextAngles]_vars

----------------------------------------------------------------------------
(* Claims about the risk classifier *)

SeverityDone == risk.op = "classify_severity" /\ risk.done

ProbabilityDone == risk.op = "logistic_probability" /\ risk.done

\* the bands as the claim words them, in kilometres
BandOf(d) ==
    IF d < 0 THEN NONE
    ELSE IF d <= 1 * KM THEN CRASH
    ELSE IF d <= 5 * KM THEN HIGH
    ELSE IF d <= 25 * KM THEN MEDIUM
    ELSE LOW

\* C8: classify_severity maps d to Collision when 0 <= d <= 1 km, High when
\* 1 < d <= 5 km, Medium when 5 < d <= 25 km, Low when d > 25 km and None
\* when d < 0; the edges 1, 5 and 25 belong to the nearer band.
C8_SeverityBands ==
    SeverityDone => risk.s1 = BandOf(risk.d1) /\ risk.s2 = BandOf(risk.d2)

\* classify_severity has run on the three band edges' neighbourhood: 5 km
\* gave High and the next larger distance gave Medium
C8_Witness ==
    /\ SeverityDone
    /\ risk.d1 = 5 * KM /\ risk.s1 = HIGH
    /\ risk.d2 = 5 * KM + 1 /\ risk.s2 = MEDIUM

\* C9 as stated: for any two distances d1 <= d2 the severity rank of
\* classify_severity(d1) is at least that of classify_severity(d2).
C9_MonotoneAllDistances ==
    SeverityDone /\ risk.d1 <= risk.d2 => risk.s1 >= risk.s2

\* C9 amended: for any two distances 0 <= d1 <= d2 the severity rank of
\* classify_severity(d1) is at least that of classify_severity(d2).
C9_MonotoneNonNegative ==
    SeverityDone /\ 0 <= risk.d1 /\ risk.d1 <= risk.d2 => risk.s1 >= risk.s2

\* classify_severity has run on two non-negative distances in different bands
C9_Witness ==
    /\ SeverityDone
    /\ 0 <= risk.d1 /\ risk.d1 < risk.d2
    /\ risk.s1 > risk.s2

InUnitInterval(p) == 0 <= p /\ p <= Q

----------------------------------------------------------------------------
(* Claims about screening *)

ScreenDone == scr.op = "screen_conjunctions" /\ scr.done

OgDone == scr.op = "og_screen" /\ scr.done

\* the unordered pairs (i, j), i < j, of n objects
Pairs(n) == {p \in (0 .. n - 1) \X (0 .. n - 1) : p[1] < p[2]}

SquaredDistance(pos1, pos2) ==
    (pos1[1] - pos2[1]) * (pos1[1] - pos2[1])
    + (pos1[2] - pos2[2]) * (pos1[2] - pos2[2])
    + (pos1[3] - pos2[3]) * (pos1[3] - pos2[3])

Smaller(a, b) == IF a < b THEN a ELSE b

ValidObject(c, i) == ~c.trajectories[i + 1].null /\ c.ids[i + 1] # NullId

\* the sample indices the caller supplied for both objects at which the two
\* clocks agree within the tolerance
ComparedSamples(traj1, traj2) ==
    {t \in 0 .. Smaller(Smaller(traj1.len, traj2.len), MAX_TIME_STEPS) - 1 :
        fabs(SampleAt(traj1, t).t - SampleAt(traj2, t).t) <= SYNC_TOLERANCE_S}

\* the minimum distance over the pair's compared samples is <= max
WithinDistance(traj1, traj2, max) ==
    \E t \in ComparedSamples(traj1, traj2) :
        SquaredDistance(SampleAt(traj1, t).r, SampleAt(traj2, t).r) <= max * max

\* the encounters of the output that name the pair (i, j)
EmittedFor(c, p) ==
    {k \in 1 .. Len(c.out) :
        c.out[k].sat1_id = c.ids[p[1] + 1] /\ c.out[k].sat2_id = c.ids[p[2] + 1]}

EnoughCapacity(c) == c.max_out >= Cardinality(Pairs(c.sat_count))

\* C1: screen_conjunctions, given enough output capacity, emits an Encounter
\* for an unordered pair (i < j) of valid objects if and only if the minimum
\* distance over that pair's compared samples is <= max_distance_km, and it
\* emits at most one Encounter per pair per call.
C1_EncounterIffWithinDistance ==
    ScreenDone /\ ~scr.null_arg /\ EnoughCapacity(scr) =>
        \A p \in Pairs(scr.sat_count) :
            ValidObject(scr, p[1]) /\ ValidObject(scr, p[2]) =>
                Cardinality(EmittedFor(scr, p)) =
                    IF WithinDistance(scr.trajectories[p[1] + 1],
                                      scr.trajectories[p[2] + 1],
                                      scr.max_distance_km)
                    THEN 1 ELSE 0

\* every object of the call comes with MAX_TIME_STEPS samples
FullLength(c) ==
    \A i \in 1 .. c.sat_count :
        c.trajectories[i].null \/ c.trajectories[i].len >= MAX_TIME_STEPS

\* the same statement for the calls whose arrays all hold MAX_TIME_STEPS
\* samples, the calls in which the loop over t stays inside the arrays
C1_FullLengthSeries ==
    ScreenDone /\ FullLength(scr) => C1_EncounterIffWithinDistance

\* screen_conjunctions has run on two snapshots farther apart than the
\* threshold and has emitted an encounter for them
C1_SpuriousEncounter ==
    /\ ScreenDone /\ ~scr.null_arg /\ scr.sat_count = 2
    /\ scr.trajectories[1].len = 1 /\ scr.trajectories[2].len = 1
    /\ ~WithinDistance(scr.trajectories[1], scr.trajectories[2], scr.max_distance_km)
    /\ scr.rc = SCREENING_SUCCESS /\ scr.out_count = 1

OgValidObject(c, i) == c.states[i + 1] # NullState /\ c.ids[i + 1] # NullId

\* the pairs of valid entries whose Euclidean distance is <= max_distance_km
OgQualifying(c) ==
    {p \in Pairs(c.sat_count) :
        /\ OgValidObject(c, p[1]) /\ OgValidObject(c, p[2])
        /\ SquaredDistance(c.states[p[1] + 1], c.states[p[2] + 1])
               <= c.max_distance_km * c.max_distance_km}

OgEmittedFor(c, p) ==
    {k \in 1 .. Len(c.out) :
        c.out[k].id_a = c.ids[p[1] + 1] /\ c.out[k].id_b = c.ids[p[2] + 1]}

OgScenario == <<(<<6800 * KM, 0, 0>>), (<<6801 * KM, 0, 0>>), (<<6850 * KM, 0, 0>>)>>

\* C2: og_screen, given non-null entries and max_encounters at least the
\* number of qualifying pairs, returns exactly one encounter for each
\* unordered pair (i < j) whose Euclidean distance is <= max_distance_km and
\* none for any other pair; for positions (6800,0,0), (6801,0,0), (6850,0,0)
\* it returns 1 encounter (objects 1 and 2) at threshold 5 km, 3 at 100 km
\* and 0 at 0.5 km.
C2_ExactPairs ==
    /\ OgDone /\ ~scr.null_arg
    /\ \A i \in 0 .. scr.sat_count - 1 : OgValidObject(scr, i)
    /\ scr.max_encounters >= Cardinality(OgQualifying(scr))
    =>
    /\ scr.ret = Cardinality(OgQualifying(scr))
    /\ Len(scr.out) = scr.ret
    /\ \A p \in Pairs(scr.sat_count) :
           Cardinality(OgEmittedFor(scr, p)) = IF p \in OgQualifying(scr) THEN 1 ELSE 0
    /\ scr.states = OgScenario =>
           /\ scr.max_distance_km = 5 * KM =>
                  /\ scr.ret = 1
                  /\ scr.out[1].id_a = 0 /\ scr.out[1].id_b = 1
                  /\ scr.out[1].min_distance_km < 5 * KM
           /\ scr.max_distance_km = 100 * KM => scr.ret = 3
           /\ scr.max_distance_km = KM \div 2 => scr.ret = 0

\* og_screen has run on the three positions of the scenario with a 5 km
\* threshold and room for every pair, and has returned the one encounter
C2_Witness ==
    /\ OgDone /\ ~scr.null_arg
    /\ scr.states = OgScenario /\ scr.ids = <<0, 1, 2>>
    /\ scr.max_distance_km = 5 * KM /\ scr.max_encounters >= 3
    /\ scr.ret = 1 /\ scr.out[1].id_a = 0 /\ scr.out[1].id_b = 1

\* the pairs for which the scan of screen_conjunctions finds an encounter
ScreenQualifying(c) ==
    {p \in Pairs(c.sat_count) :
        /\ ValidObject(c, p[1]) /\ ValidObject(c, p[2])
        /\ LET scan == ScanPair(c.trajectories[p[1] + 1], c.trajectories[p[2] + 1],
                                c.max_distance_km)
           IN  scan.min_distance <= c.max_distance_km /\ scan.closest_index >= 0}

\* screen_conjunctions reports more qualifying pairs than max_out
C3_ScreenConjunctionsReports ==
    ScreenDone /\ ~scr.null_arg /\ Cardinality(ScreenQualifying(scr)) > scr.max_out
        => scr.rc = SCREENING_ERROR_INSUFFICIENT_BUFFER

\* og_screen reports more qualifying pairs than max_encounters: a negative
\* return value or a last error
C3_OgScreenReports ==
    OgDone /\ ~scr.null_arg /\ Cardinality(OgQualifying(scr)) > scr.max_encounters
        => scr.ret < 0 \/ scr.last_error # NoError

\* C3: whenever the number of qualifying pairs exceeds the caller-provided
\* maximum count, the screening operation reports an insufficient-capacity
\* condition instead of returning a silently truncated list as a success;
\* this holds for screen_conjunctions (max_out) and for og_screen
\* (max_encounters).
C3_OverflowReported == C3_ScreenConjunctionsReports /\ C3_OgScreenReports

\* og_screen has run on more qualifying pairs than max_encounters and has
\* returned max_encounters of them with no error
C3_SilentTruncation ==
    /\ OgDone /\ ~scr.null_arg
    /\ Cardinality(OgQualifying(scr)) > scr.max_encounters
    /\ scr.max_encounters > 0
    /\ scr.ret = scr.max_encounters /\ scr.last_error = NoError

----------------------------------------------------------------------------
(* Claims about propagation *)

PropagateDone == prop.op = "propagate" /\ prop.done

\* C4: propagate returns InvalidInput for every elements record whose
\* eccentricity is outside [0,1) (negative, equal to 1, or greater than 1),
\* and in that case the Kepler solver is never invoked.
C4_InvalidEccentricityRejected ==
    /\ PropagateDone /\ ~prop.null_elements
    /\ prop.eccentricity \in {"-inf", "-0.5", "1", "1.5", "+inf"}
    =>
    /\ prop.rc = PROPAGATION_ERROR_INVALID_INPUT
    /\ prop.kepler_calls = 0

\* propagate has run on elements with eccentricity 1.5 and an otherwise
\* valid orbit, and has returned InvalidInput without a call of the solver
C4_Witness ==
    /\ PropagateDone /\ ~prop.null_elements /\ ~prop.null_out_state
    /\ prop.eccentricity = "1.5" /\ prop.mean_motion = Pos
    /\ prop.rc = PROPAGATION_ERROR_INVALID_INPUT
    /\ prop.kepler_calls = 0

\* C5: propagate reports InvalidInput for every elements record whose mean
\* motion is zero or negative, before any iteration starts; such a record
\* is never silently coerced into a usable value and never yields a
\* successful state vector or a different error kind.
C5_NonPositiveMeanMotionRejected ==
    /\ PropagateDone /\ ~prop.null_elements /\ ~prop.null_out_state
    /\ prop.mean_motion \in {NInf, Neg, Zero}
    =>
    /\ prop.rc = PROPAGATION_ERROR_INVALID_INPUT
    /\ prop.kepler_calls = 0

\* propagate has run on a negative mean motion and a valid eccentricity and
\* has returned a state vector with success
C5_NegativeMeanMotionAccepted ==
    /\ PropagateDone
    /\ prop.mean_motion = Neg /\ prop.eccentricity = "0"
    /\ prop.rc = PROPAGATION_SUCCESS

\* C6: whenever propagate returns PROPAGATION_SUCCESS, every position and
\* velocity component of the returned state vector is finite (neither NaN
\* nor plus or minus infinity); a non-finite component always surfaces as
\* an error.
C6_SuccessIsFinite ==
    PropagateDone /\ prop.rc = PROPAGATION_SUCCESS =>
        \A i \in 1 .. 3 :
            /\ prop.out_state.r[i] \in {Neg, Zero, Pos, Fin}
            /\ prop.out_state.v[i] \in {Neg, Zero, Pos, Fin}

\* propagate has returned success with a position and a velocity it has
\* computed
C6_Witness ==
    /\ PropagateDone /\ prop.rc = PROPAGATION_SUCCESS
    /\ prop.kepler_calls = 1
    /\ prop.out_state.r[1] \in {Neg, Pos, Fin}
    /\ prop.out_state.v[3] \in {Neg, Pos, Fin}

\* C7: whenever propagate returns the NonFiniteResult error, the whole
\* output state (time, position and velocity) has been zeroed, so no
\* partially computed component is visible to the caller.
C7_NanResultZeroed ==
    PropagateDone /\ prop.rc = PROPAGATION_ERROR_NAN_RESULT =>
        /\ prop.out_state.t = Zero
        /\ prop.out_state.r = <<Zero, Zero, Zero>>
        /\ prop.out_state.v = <<Zero, Zero, Zero>>

\* propagate has run on a zero mean motion, which makes the position
\* non-finite, and has returned NonFiniteResult with the time zeroed
C7_Witness ==
    /\ PropagateDone /\ prop.rc = PROPAGATION_ERROR_NAN_RESULT
    /\ prop.mean_motion = Zero /\ prop.epoch = Pos
    /\ prop.out_state.t = Zero

----------------------------------------------------------------------------
(* Claims about the Kepler solver *)

KeplerReturned == kep.op = "solve_kepler" /\ kep.pc \in {"returned", "done"}

KeplerDone == kep.op = "solve_kepler" /\ kep.pc = "done"

\* e in [0, 1) and M in [0, 2 pi), neither a NaN
InKeplerDomain ==
    /\ ~kep.nan
    /\ ~FxNegative(kep.e) /\ FxLess(kep.e, FxOne)
    /\ ~FxNegative(kep.M0) /\ FxLess(kep.M0, TWO_PI)

\* |E - e sin E - M| of the returned E
Residual(k) == FxAbs(FxFma(FxSub(k.E, k.M0), 0 - 1, k.e, SinCos(k.E).s))

ResidualBound == <<3433, 5139, 6191, 549, 0, 0, 0>>

\* C11: for every eccentricity in [0, 1) and mean anomaly in [0, 2 pi) the
\* solver returns an E, not the failure value, with |E - e sin E - M| < 1e-9.
C11_SolverConverges ==
    (KeplerReturned /\ InKeplerDomain) =>
        (~kep.ret_nan /\ FxLess(Residual(kep), ResidualBound))

\* C12: the solver makes at most KEPLER_MAX_ITERATIONS Newton iterations on
\* every input and returns, and the propagate call that made it returns too.
C12_Terminates ==
    /\ [](kep.op = "solve_kepler" => kep.i <= KEPLER_MAX_ITERATIONS)
    /\ <>KeplerDone

C12_Witness == KeplerDone /\ kep.i = KEPLER_MAX_ITERATIONS /\ kep.nan

\* C13: the solver returns the failure value exactly when some iteration saw
\* |1 - e cos E| < 1e-15 or the thirty iterations ended without |delta| < 1e-10;
\* propagate returns PROPAGATION_ERROR_CONVERGENCE in exactly those cases and
\* builds a state vector only from a converged E.
C13_FailureExactly ==
    /\ KeplerReturned =>
           (kep.ret_nan <=>
               (kep.df_small
                \/ (kep.i = KEPLER_MAX_ITERATIONS /\ ~kep.converged)))
    /\ KeplerDone =>
           /\ (kep.rc = PROPAGATION_ERROR_CONVERGENCE) <=> kep.ret_nan
           /\ kep.built => (kep.converged /\ ~kep.ret_nan)

C13_Witness ==
    /\ KeplerDone /\ InKeplerDomain
    /\ kep.i = KEPLER_MAX_ITERATIONS /\ ~kep.converged
    /\ kep.rc = PROPAGATION_ERROR_CONVERGENCE /\ ~kep.built

----------------------------------------------------------------------------
(* Claims about filtering and sorting *)

FilterDone == enc.op = "filter_by_probability" /\ enc.done /\ ~enc.null

RiskSortDone == enc.op = "sort_encounters_by_risk" /\ enc.done /\ ~enc.null

TimeSortDone == enc.op = "sort_encounters_by_time" /\ enc.done /\ ~enc.null

AtLeast(p, l) == SelectSeq(l, LAMBDA e : e.collision_probability >= p)

\* C14: filter_by_probability returns k such that the first k entries of the
\* array are exactly the inputs with collision_probability >= p, in their
\* original relative order.
C14_FilterKeepsExactly ==
    FilterDone =>
        /\ enc.ret = Len(AtLeast(enc.min_probability, enc.input))
        /\ SubSeq(enc.encounters, 1, enc.ret)
               = AtLeast(enc.min_probability, enc.input)

C14_Witness ==
    /\ FilterDone
    /\ enc.ret = 1 /\ enc.count = MaxEncounters
    /\ enc.input[1].collision_probability < enc.min_probability
    /\ enc.encounters[1] = enc.input[MaxEncounters]

Occurrences(l, x) == Cardinality({i \in 1 .. Len(l) : l[i] = x})

IsPermutation(l1, l2) ==
    /\ Len(l1) = Len(l2)
    /\ \A i \in 1 .. Len(l1) : Occurrences(l1, l1[i]) = Occurrences(l2, l1[i])

RiskScore(e) == e.collision_probability * (e.severity + 1)

\* C15: after sort_encounters_by_risk the array is a permutation of its input
\* with collision_probability * (severity + 1) non-increasing; after
\* sort_encounters_by_time it is a permutation of its input with
\* time_of_closest_approach non-decreasing.
C15_Sorted ==
    /\ RiskSortDone =>
           /\ IsPermutation(enc.encounters, enc.input)
           /\ \A i, j \in 1 .. enc.count :
                  i < j => RiskScore(enc.encounters[i]) >= RiskScore(enc.encounters[j])
    /\ TimeSortDone =>
           /\ IsPermutation(enc.encounters, enc.input)
           /\ \A i, j \in 1 .. enc.count :
                  i < j => enc.encounters[i].time_of_closest_approach
                               <= enc.encounters[j].time_of_closest_approach

C15_Witness ==
    /\ RiskSortDone
    /\ enc.count = MaxEncounters
    /\ enc.encounters # enc.input
    /\ RiskScore(enc.encounters[1]) > RiskScore(enc.encounters[MaxEncounters])

\* C16: both sorts are stable: encounters with equal risk score (equal time)
\* keep their original relative order.
C16_Stable ==
    /\ RiskSortDone =>
           \A i, j \in 1 .. enc.count :
               (i < j /\ RiskScore(enc.encounters[i]) = RiskScore(enc.encounters[j]))
                   => enc.encounters[i].tag < enc.encounters[j].tag
    /\ TimeSortDone =>
           \A i, j \in 1 .. enc.count :
               (i < j /\ enc.encounters[i].time_of_closest_approach
                             = enc.encounters[j].time_of_closest_approach)
                   => enc.encounters[i].tag < enc.encounters[j].tag

----------------------------------------------------------------------------
(* Claims about null entries in a screening call *)

ScreenRan == scr.op = "screen_conjunctions" /\ scr.done /\ ~scr.null_arg

OgRan == scr.op = "og_screen" /\ scr.done /\ ~scr.null_arg

\* object i (from 1) of the call has its trajectory (its state) and its id
ValidEntry(c, i) ==
    /\ c.ids[i] # NullId
    /\ IF c.op = "og_screen" THEN c.states[i] # NullState
       ELSE ~c.trajectories[i].null

ValidIndices(c) ==
    SelectSeq([i \in 1 .. c.sat_count |-> i], LAMBDA i : ValidEntry(c, i))

HasInvalidEntry(c) == Len(ValidIndices(c)) < c.sat_count

\* the call with its invalid objects left out of the arrays
ScreenWithoutInvalid(c) ==
    LET keep == ValidIndices(c)
    IN  [c EXCEPT !.sat_count = Len(keep),
                  !.trajectories = [k \in 1 .. Len(keep) |-> c.trajectories[keep[k]]],
                  !.ids = [k \in 1 .. Len(keep) |-> c.ids[keep[k]]]]

OgWithoutInvalid(c) ==
    LET keep == ValidIndices(c)
    IN  [c EXCEPT !.sat_count = Len(keep),
                  !.states = [k \in 1 .. Len(keep) |-> c.states[keep[k]]],
                  !.ids = [k \in 1 .. Len(keep) |-> c.ids[keep[k]]]]

C18_FewValidIsError ==
    /\ (ScreenRan /\ Len(ValidIndices(scr)) < 2) => scr.rc # SCREENING_SUCCESS
    /\ (OgRan /\ Len(ValidIndices(scr)) < 2) => scr.last_error # NoError

----------------------------------------------------------------------------
(* Claims about the last-error slot *)

\* C19: after any sequence of og_* calls on one thread, og_last_error()
\* returns NULL if the most recent call succeeded and a message if it failed
\* (NULL handle, non-zero status, negative fuel value).
C19_LastErrorTracksFailure ==
    (api.op = "og" /\ api.n > 0) =>
        (og_last_error(api.g_last_error) = NullPointer <=> ~api.failed)

----------------------------------------------------------------------------
(* Claims about concurrent propagation *)

\* what the call of worker w returns when it runs alone
Alone(w) ==
    propagate(View(par.initial[par.workers[w].el],
                   [par.workers[w] EXCEPT !.out_state = OldState]))

\* C20: propagate never modifies the caller's OrbitalElements and shares no
\* mutable state: under any interleaving of concurrent calls, calls on the
\* same elements record included, each call returns the code and the state
\* vector it returns when run alone.
C20_CallsIndependent ==
    par.op = "parallel" =>
        /\ par.elements = par.initial
        /\ \A w \in 1 .. MaxWorkers :
               par.workers[w].pc = "done" =>
                   /\ par.workers[w].rc = Alone(w).rc
                   /\ par.workers[w].out_state = Alone(w).out_state

C20_Witness ==
    /\ par.op = "parallel"
    /\ \A w \in 1 .. MaxWorkers : par.workers[w].pc = "done"
    /\ par.workers[1].el = par.workers[2].el
    /\ par.workers[1].rc = PROPAGATION_SUCCESS
    /\ par.workers[2].rc = PROPAGATION_ERROR_CONVERGENCE

----------------------------------------------------------------------------
(* Claims about maneuvers *)

PlanDone == man.op = "plan_avoidance" /\ man.done

\* C21: plan_avoidance returns 0 only when the encounter time is after the
\* primary's epoch and the required delta-v is within the ceiling; whenever
\* it returns 0 the magnitude of the delta-v written is at most
\* max_delta_v_mps, for every target distance and ceiling.
C21_WithinCeiling ==
    (PlanDone /\ man.rc = 0) =>
        /\ ~man.time_nan
        /\ man.encounter_time > man.primary.epoch
        /\ ~man.out_maneuver.nan
        /\ vector_magnitude(man.out_maneuver.delta_v) <= man.max_delta_v_mps

FuelDone == man.op = "fuel_consumption" /\ man.done

\* dv: the delta-v in m/s divided by the efficiency, an efficiency of 0
\* standing for 1
EffectiveDeltaV ==
    FxDiv(FxTimes(man.delta_v_km_s, 1000),
          IF man.efficiency = FxZero THEN FxOne ELSE man.efficiency)

InitialMass == FxAdd(man.dry_mass_kg, man.propellant_mass_kg)

\* m0 * dv / (Isp * g0)
LinearFuel ==
    FxDiv(FxMul(InitialMass, EffectiveDeltaV), FxMul(man.specific_impulse_s, G0))

\* m0 * (1 - exp(-dv / (Isp * g0)))
RocketFuel ==
    FxMul(InitialMass,
          FxSub(FxOne, FxExp(FxNeg(FxDiv(EffectiveDeltaV,
                                         FxMul(man.specific_impulse_s, G0))))))

\* 1e-9 kg
FuelTolerance == <<3433, 5139, 6191, 549, 0, 0, 0>>

Close(a, b) == FxLess(FxAbs(FxSub(a, b)), FuelTolerance)

DeltaVIs(n) == man.delta_v_km_s = Ratio(n, 1000)

TestedCall ==
    /\ FuelDone
    /\ man.specific_impulse_s = FxInt(300)
    /\ man.efficiency = FxOne

\* C22: on the calls of test_fuel_consumption, fuel_consumption returns the
\* linear approximation for 10 m/s and the rocket-equation value for 100 m/s
\* and 1000 m/s.
C22_LinearAtTenMetres ==
    /\ (TestedCall /\ DeltaVIs(10)) => Close(man.fuel, LinearFuel)
    /\ (TestedCall /\ (DeltaVIs(100) \/ DeltaVIs(1000))) => Close(man.fuel, RocketFuel)

\* What the function does: the linear approximation when dv / (Isp * g0) is
\* below SMALL_DV_THRESHOLD and the rocket-equation value otherwise; 10 m/s
\* at Isp 300 s has the ratio 3.4e-3 and gets the rocket equation.
LinearBelowThreshold ==
    FuelDone =>
        IF FxLess(FxDiv(EffectiveDeltaV, FxMul(man.specific_impulse_s, G0)),
                  SMALL_DV_THRESHOLD)
        THEN Close(man.fuel, LinearFuel)
        ELSE Close(man.fuel, RocketFuel)

RocketEquationAtTenMetres ==
    /\ TestedCall
    /\ DeltaVIs(10)
    /\ Close(man.fuel, RocketFuel)
    /\ ~Close(man.fuel, LinearFuel)

ApplyDone == man.op = "apply_maneuver" /\ man.done

\* C23: apply_maneuver writes to out_state the state at the maneuver epoch:
\* the propagated position, the propagated velocity plus delta_v / 1000
\* (km/s), and the time of the maneuver.
C23_StateAtManeuver ==
    ApplyDone =>
        /\ man.out_state.r = man.propagated.r
        /\ man.out_state.v = <<man.propagated.v[1] + man.m.delta_v[1],
                               man.propagated.v[2] + man.m.delta_v[2],
                               man.propagated.v[3] + man.m.delta_v[3]>>
        /\ man.out_state.t = man.m.epoch

----------------------------------------------------------------------------
(* Claims about the angle wraps *)

InTurn(x) == ~FxNegative(x) /\ FxLess(x, TWO_PI)

AnglesAt(pcs) == prop.op = "angles" /\ prop.pc \in pcs

\* C24: every angle wrap of a propagation yields a value in [0, 2*pi): the
\* corrected RAAN and argument of perigee, the mean anomaly of propagate and
\* the mean anomaly of the Kepler solver, also for negative elapsed times
\* and angles below -2*pi.
C24_WrapsInTurn ==
    /\ AnglesAt({"mean", "solver", "done"}) =>
           InTurn(prop.raan) /\ InTurn(prop.arg_perigee)
    /\ AnglesAt({"solver", "done"}) => InTurn(prop.M)
    /\ AnglesAt({"done"}) => InTurn(prop.solver_M)

\* What holds: a wrap of an angle that is at least -2*pi is in [0, 2*pi), and
\* so is the mean anomaly the solver works with, wrapped twice.
WrapsAboveMinusTurn ==
    /\ (AnglesAt({"mean", "solver", "done"})
            /\ ~FxLess(prop.delta_omega_dt, FxNeg(TWO_PI))) => InTurn(prop.raan)
    /\ (AnglesAt({"solver", "done"})
            /\ ~FxLess(FxAdd(prop.mean_anomaly, prop.n_minutes), FxNeg(TWO_PI))) =>
           InTurn(prop.M)
    /\ AnglesAt({"done"}) => InTurn(prop.solver_M)

NegativeRaan ==
    /\ AnglesAt({"done"})
    /\ prop.delta_omega_dt = FxInt(0 - 7)
    /\ FxNegative(prop.raan)

----------------------------------------------------------------------------
(* Claims about the scan of a pair *)

ScreenOk == ScreenRan /\ scr.rc = SCREENING_SUCCESS

\* the trajectories of the two objects an emitted encounter names; an id is
\* the object's index
FirstOf(e) == scr.trajectories[e.sat1_id + 1]

SecondOf(e) == scr.trajectories[e.sat2_id + 1]

\* lines 88-90: the loop reads both arrays at every t below MAX_TIME_STEPS
LoopIndices == 0 .. MAX_TIME_STEPS - 1

TimeDifference(traj1, traj2, t) == fabs(SampleAt(traj1, t).t - SampleAt(traj2, t).t)

DistanceAt(traj1, traj2, t) == distance3d(SampleAt(traj1, t).r, SampleAt(traj2, t).r)

\* the indices whose samples differ in time by strictly less than the
\* tolerance
StrictlySynchronized(traj1, traj2) ==
    {t \in LoopIndices : TimeDifference(traj1, traj2, t) < SYNC_TOLERANCE_S}

\* the indices the loop compares: those it does not skip at line 95
Compared(traj1, traj2) ==
    {t \in LoopIndices : ~(TimeDifference(traj1, traj2, t) > SYNC_TOLERANCE_S)}

\* the indices of a set at which the distance of the pair is least
Closest(traj1, traj2, set) ==
    {t \in set : \A u \in set : DistanceAt(traj1, traj2, t) <= DistanceAt(traj1, traj2, u)}

Earliest(set) == CHOOSE t \in set : \A u \in set : t <= u

\* C25: a pair of samples contributes to the minimum-distance search only if
\* their timestamps differ by strictly less than the synchronization
\* tolerance: the minimum distance of an emitted encounter is the least
\* distance over the strictly synchronized samples of its pair.
C25_StrictTolerance ==
    ScreenRan =>
        \A k \in 1 .. Len(scr.out) :
            /\ StrictlySynchronized(FirstOf(scr.out[k]), SecondOf(scr.out[k])) # {}
            /\ \E t \in Closest(FirstOf(scr.out[k]), SecondOf(scr.out[k]),
                                StrictlySynchronized(FirstOf(scr.out[k]),
                                                     SecondOf(scr.out[k]))) :
                   scr.out[k].min_distance_km =
                       DistanceAt(FirstOf(scr.out[k]), SecondOf(scr.out[k]), t)

\* an encounter found between two series whose clocks differ by exactly the
\* tolerance at every sample
EncounterAtTolerance ==
    /\ ScreenOk /\ scr.sat_count = 2 /\ Len(scr.out) = 1
    /\ scr.trajectories[1].len = MAX_TIME_STEPS
    /\ scr.trajectories[2].len = MAX_TIME_STEPS
    /\ \A t \in LoopIndices :
           TimeDifference(scr.trajectories[1], scr.trajectories[2], t) = SYNC_TOLERANCE_S

\* what the record of an encounter is, given the index of closest approach
RecordAt(e, traj1, traj2, t) ==
    /\ e.min_distance_km = DistanceAt(traj1, traj2, t)
    /\ e.time_of_closest_approach = SampleAt(traj1, t).t
    /\ e.relative_velocity =
           compute_relative_velocity(SampleAt(traj1, t), SampleAt(traj2, t))
    /\ e.severity = classify_severity(e.min_distance_km)
    /\ e.collision_probability =
           logistic_probability(e.min_distance_km, e.relative_velocity)

\* the compared indices at which the pair is at distance d
AttainedAt(traj1, traj2, set, d) == {t \in set : DistanceAt(traj1, traj2, t) = d}

\* e is the record of the closest approach over the indices of set
ClosestOver(e, traj1, traj2, set) ==
    /\ set # {}
    /\ \A t \in set : e.min_distance_km <= DistanceAt(traj1, traj2, t)
    /\ \E at \in {AttainedAt(traj1, traj2, set, e.min_distance_km)} :
           at # {} /\ RecordAt(e, traj1, traj2, Earliest(at))

ClosestAtSecondSample ==
    /\ ScreenOk /\ scr.sat_count = 2 /\ Len(scr.out) = 1
    /\ scr.trajectories[1].len = MAX_TIME_STEPS
    /\ scr.trajectories[2].len = MAX_TIME_STEPS
    /\ DistanceAt(scr.trajectories[1], scr.trajectories[2], 0) > scr.out[1].min_distance_km
    /\ scr.out[1].time_of_closest_approach = 1

\* encounter a is written for a pair before the pair of encounter b
PairBefore(i1, j1, i2, j2) == i1 < i2 \/ (i1 = i2 /\ j1 < j2)

\* C27: screening writes its encounters in increasing pair-index order (by
\* i, then by j, with i < j), the first id of each encounter being that of
\* the lower-index object; an object's id is its index in the input.
C27_PairOrder ==
    /\ ScreenRan =>
           /\ \A k \in 1 .. Len(scr.out) : scr.out[k].sat1_id < scr.out[k].sat2_id
           /\ \A k \in 1 .. Len(scr.out) - 1 :
                  PairBefore(scr.out[k].sat1_id, scr.out[k].sat2_id,
                             scr.out[k + 1].sat1_id, scr.out[k + 1].sat2_id)
    /\ OgRan =>
           /\ \A k \in 1 .. Len(scr.out) : scr.out[k].id_a < scr.out[k].id_b
           /\ \A k \in 1 .. Len(scr.out) - 1 :
                  PairBefore(scr.out[k].id_a, scr.out[k].id_b,
                             scr.out[k + 1].id_a, scr.out[k + 1].id_b)

\* screen_conjunctions has written the three encounters of three objects
C27_Witness ==
    /\ ScreenOk /\ scr.sat_count = 3 /\ Len(scr.out) = 3
    /\ scr.out[1].sat1_id = 0 /\ scr.out[1].sat2_id = 1
    /\ scr.out[2].sat1_id = 0 /\ scr.out[2].sat2_id = 2
    /\ scr.out[3].sat1_id = 1 /\ scr.out[3].sat2_id = 2

\* C28: screen_conjunctions never reads a trajectory sample at an index at
\* or beyond the number of samples the caller supplied for that object.
C28_ReadsWithinLength ==
    ScreenOk =>
        \A p \in Pairs(scr.sat_count) :
            ValidObject(scr, p[1]) /\ ValidObject(scr, p[2]) =>
                \A t \in LoopIndices :
                    /\ t < scr.trajectories[p[1] + 1].len
                    /\ t < scr.trajectories[p[2] + 1].len

\* an encounter of two single snapshots whose record comes from the memory
\* behind the arrays: the snapshots are farther apart than its min_distance_km
EncounterFromPadding ==
    /\ ScreenOk /\ scr.sat_count = 2 /\ Len(scr.out) = 1
    /\ scr.trajectories[1].len = 1 /\ scr.trajectories[2].len = 1
    /\ DistanceAt(scr.trajectories[1], scr.trajectories[2], 0) > scr.out[1].min_distance_km

\* the result of the call with room for every pair
Unbounded(c) == screen_conjunctions([c EXCEPT !.max_out = Cardinality(Pairs(c.sat_count))])

Overflowed == ScreenRan /\ scr.rc = SCREENING_ERROR_INSUFFICIENT_BUFFER

\* C29: when screen_conjunctions returns SCREENING_ERROR_INSUFFICIENT_BUFFER,
\* the max_out encounters already written are the first max_out qualifying
\* pairs, unmodified, and *out_count is the number of encounters written.
C29_OverflowKeepsCount ==
    Overflowed =>
        /\ Len(scr.out) = scr.max_out
        /\ scr.out = SubSeq(Unbounded(scr).out, 1, scr.max_out)
        /\ scr.out_count = Len(scr.out)

\* What holds of the array on overflow
OverflowKeepsEncounters ==
    Overflowed =>
        /\ Len(scr.out) = scr.max_out
        /\ scr.out = SubSeq(Unbounded(scr).out, 1, scr.max_out)
        /\ scr.out_count = 0

CountLostOnOverflow == Overflowed /\ Len(scr.out) = 2 /\ scr.out_count = 0

----------------------------------------------------------------------------
(* Claims about the output of a failed propagation *)

OgPropagateDone == prop.op = "og_propagate" /\ prop.done

\* C30: a failed propagation leaves the caller's output untouched at both
\* layers: when propagate returns InvalidInput the caller's out_state is not
\* modified, and when og_propagate returns a non-zero code its out_state3
\* and out_vel3 arrays are not modified.
C30_FailureLeavesOutput ==
    /\ (PropagateDone /\ prop.rc = PROPAGATION_ERROR_INVALID_INPUT) =>
           prop.out_state = OldState
    /\ (OgPropagateDone /\ prop.ret # 0) =>
           prop.out_state3_mem = OldState.r /\ prop.out_vel3_mem = OldState.v

\* og_propagate, given three valid pointers, has returned the InvalidInput
\* of propagate for an eccentricity out of range and has left both arrays
C30_Witness ==
    /\ OgPropagateDone
    /\ prop.elements /\ prop.out_state3 /\ prop.out_vel3
    /\ AtLeastOne(prop.call.eccentricity)
    /\ prop.ret = PROPAGATION_ERROR_INVALID_INPUT
    /\ prop.out_state3_mem = OldState.r /\ prop.out_vel3_mem = OldState.v

\* og_propagate has failed after propagate had written its state: the
\* arrays are as they were
OgFailureAfterWriting ==
    /\ OgPropagateDone
    /\ prop.ret = PROPAGATION_ERROR_NAN_RESULT
    /\ prop.out_state3_mem = OldState.r

\* og_propagate has succeeded and filled the arrays
OgSuccessWrites ==
    /\ OgPropagateDone /\ prop.ret = 0
    /\ prop.out_state3_mem # OldState.r /\ prop.out_vel3_mem # OldState.v

====
